---- MODULE Spec2Model ----
(***************************************************************************)
(* A model of db-ops' job engine: the run monitor (wait_for_run and        *)
(* wait_for_runs_with_progress), the parallel dispatcher                   *)
(* (start_jobs_parallel), the job inventory cache of                       *)
(* DatabricksJobsAdapter, alone and under two concurrent invocations,      *)
(* job selection (selectors, build_selector, select_jobs), the find and    *)
(* run commands, and the bulk catalog operations of core/catalog.py.       *)
(*                                                                         *)
(* Each component has its own specification (SpecMonitor, SpecDispatch,    *)
(* SpecCache, SpecCacheRace, SpecSelect, SpecJobsCli, SpecCatalog); the    *)
(* variables of the components a specification does not use stay at        *)
(* their idle values. SpecJobsCli runs the selection, the dispatcher and   *)
(* the monitor as the run command calls them. SpecMonitorLive is the       *)
(* monitor under fairness; SpecAdapterMonitor is the monitor polling       *)
(* through DatabricksJobsAdapter.get_run_status; SpecSchemaDelete is the   *)
(* schema-delete command; SpecCachePath is two adapters and their cache    *)
(* file paths.                                                             *)
(***************************************************************************)
EXTENDS Integers, Sequences, FiniteSets, Bags, TLC

VARIABLES
    \* ---- run monitor (core/runs.py wait_for_run, cli/common/progress.py)
    call,        \* which function the caller invoked
    runs,        \* wait_for_runs_with_progress: the input list of JobRun
    statuses,    \* dict run_id -> RunStatus
    finished,    \* set of run_ids
    failures,    \* the failures tally
    idx,         \* position of the for loop in runs (1-based)
    run_id,      \* wait_for_run: the run_id argument
    status,      \* wait_for_run: the local status
    pc,          \* position of the caller's thread
    result,      \* the value returned (meaningful when pc = "done")
    \* observations of the adapter's get_run_status calls
    terminalSeen, \* run_id -> first terminal status the adapter returned
    repolled,     \* run_ids polled again after a terminal status
    completion,   \* run_ids in the order they were marked finished
    tickPolled,   \* run_ids polled in the current tick, in order
    \* ---- parallel dispatcher (core/runs.py start_jobs_parallel)
    job_ids,      \* the job_ids argument
    max_parallel, \* the max_parallel argument
    dpc,          \* position of the calling thread
    subIdx,       \* next element of job_ids to submit (1-based)
    futures,      \* one future per submitted job: its state and its result
    yielded,      \* futures as_completed has handed to the loop
    started_runs, \* the local list runs of start_jobs_parallel
    dresult,      \* the value returned (meaningful when dpc = "returned")
    derror,       \* the exception that left the call, if any
    nextRunId,    \* the remote service's run id counter
    startLog,     \* job ids start_job was invoked with, in call order
    \* ---- job inventory cache (core/adapters/databricksjobs.py)
    cache_file,   \* what is on disk at self._cache_path
    now,          \* time.time(), in seconds
    clock_ticks,  \* how often the clock has advanced
    env_ttl,      \* os.getenv("DBOPS_JOBS_CACHE_TTL")
    env_disable,  \* os.getenv("DBOPS_JOBS_CACHE_DISABLE", "")
    remote_jobs,  \* what client.jobs.list() yields
    cpc,          \* position of the caller of find_all_jobs
    loaded,       \* what _load_cached_jobs gave in the current call
    found,        \* what find_all_jobs returned
    fetched,      \* whether the current call listed the remote jobs
    file_before,  \* cache_file as the current call found it
    cerror,       \* the exception that left the current call, if any
    stored,       \* the last inventory a store wrote, while the file is that one
    \* ---- two invocations of find_all_jobs sharing one cache file
    rfile,        \* the file: whether it exists and the blocks written to it
    rpc,          \* each invocation's position in find_all_jobs
    rcached,      \* each invocation's result of _load_cached_jobs
    rjobs,        \* each invocation's live-fetched inventory
    rts,          \* the timestamp of each invocation's payload
    rread,        \* the file as each invocation's load read it
    rresult,      \* what find_all_jobs returned to each invocation
    \* ---- job selection (core/selectors.py, cli/common/selector_builder.py)
    s_name,       \* build_selector's name argument: None or a string
    s_tags,       \* build_selector's tags argument: a list of strings
    s_use_or,     \* build_selector's use_or argument
    s_inventory,  \* what the adapter's find_all_jobs returns
    spc,          \* position of the caller: start, built, constructed, invalid, selected
    s_selector,   \* the selector built or constructed
    s_error,      \* the exception build_selector raised, if any
    s_verdicts,   \* what selector.matches gave for each job of the inventory
    s_selected,   \* what select_jobs returned
    s_calls,      \* how often select_jobs called adapter.find_all_jobs
    \* ---- the jobs commands (cli/commands/jobs.py: find and run)
    command,      \* the command invoked: find or run
    parallel,     \* --parallel
    confirm,      \* --confirm / --no-confirm
    watch,        \* --watch
    dry_run,      \* --dry-run
    kpc,          \* position in the command's body
    selected,     \* what the interactive selection (tui.select_jobs) returned
    out,          \* what the command has printed so far, in order
    results,      \* the results handed to out.run_status_table
    exit_code,    \* the exit code of the process, once it has exited
    \* ---- the bulk catalog operations (core/catalog.py)
    u_op,         \* the function called
    u_names,      \* table_full_names / schema_full_names
    u_dry_run,    \* dry_run
    u_schema,     \* schema_full_name of delete_schema_with_tables
    u_regex,      \* table_name_regex: None or a string
    u_force,      \* force / force_schema_delete
    u_listed,     \* what adapter.list_tables returns
    upc,          \* position in the function
    u_i,          \* index of the loop over the names
    u_owner,      \* owner / me: the current user, or None
    u_tables,     \* table_names of delete_schema_with_tables
    u_results,    \* results, one entry appended per name
    u_calls,      \* the adapter calls made so far, in order, with their outcome
    u_return,     \* what the function returned, or the exception it raised
    \* ---- what lies outside the process: the workspace and the user
    remote,       \* run_id -> the state client.jobs.get_run reports for the run
    answer,       \* what the user answered to Confirm.ask, once asked
    \* ---- the schema-delete command (cli/commands/unitycatalog.py)
    yes,          \* --yes
    plan,         \* plan["tables"]: the tables shown as the deletion plan
    \* ---- two adapters and the cache files they share
    p_ident,      \* each adapter's profile, host and cache directory
    p_disk,       \* the cache files on disk: path and the adapter that wrote it
    p_read        \* what each adapter's last find_all_jobs read from the cache

monVars == <<call, runs, statuses, finished, failures, idx, run_id, status,
             pc, result, terminalSeen, repolled, completion, tickPolled>>

dispVars == <<job_ids, max_parallel, dpc, subIdx, futures, yielded, started_runs,
              dresult, derror, nextRunId, startLog>>

cacheVars == <<cache_file, now, clock_ticks, env_ttl, env_disable, remote_jobs, cpc,
               loaded, found, fetched, file_before, cerror, stored>>

raceVars == <<rfile, rpc, rcached, rjobs, rts, rread, rresult>>

\* the cache component's variables that are not the environment
cacheCallVars == <<cache_file, cpc, loaded, found, fetched, file_before, cerror, stored>>

selVars == <<s_name, s_tags, s_use_or, s_inventory, spc, s_selector, s_error,
             s_verdicts, s_selected, s_calls>>

cliVars == <<command, parallel, confirm, watch, dry_run, kpc, selected, out, results,
             exit_code>>

ucVars == <<u_op, u_names, u_dry_run, u_schema, u_regex, u_force, u_listed, upc, u_i,
            u_owner, u_tables, u_results, u_calls, u_return>>

wsVars == <<remote, answer>>

sdVars == <<yes, plan>>

pathVars == <<p_ident, p_disk, p_read>>

\* what each component leaves alone
notMonitor == <<dispVars, cacheVars, raceVars, selVars, cliVars, ucVars, wsVars, sdVars,
                pathVars>>

notDispatch == <<monVars, cacheVars, raceVars, selVars, cliVars, ucVars, wsVars, sdVars,
                 pathVars>>

notCache == <<monVars, dispVars, raceVars, selVars, cliVars, ucVars, wsVars, sdVars,
              pathVars>>

notRace == <<monVars, dispVars, cacheCallVars, selVars, cliVars, ucVars, wsVars, sdVars,
             pathVars>>

notSelect == <<monVars, dispVars, cacheVars, raceVars, cliVars, ucVars, wsVars, sdVars,
               pathVars>>

notCatalog == <<monVars, dispVars, cacheVars, raceVars, selVars, cliVars, wsVars, sdVars,
                pathVars>>

vars == <<monVars, dispVars, cacheVars, raceVars, selVars, cliVars, ucVars, wsVars, sdVars,
          pathVars>>

----------------------------------------------------------------------------
(* Bounds *)
MaxRuns == 2
MaxRunId == 2
MaxJobs == 3
MaxParallel == 2
MaxClockTicks == 3
MaxTables == 2

----------------------------------------------------------------------------
(* core/jobs.py: the value types *)

RunStatus == {"PENDING", "RUNNING", "SUCCESS", "FAILED", "CANCELED", "UNKNOWN"}

TerminalStatuses == {"SUCCESS", "FAILED", "CANCELED"}

FailureStatuses == {"FAILED", "CANCELED"}

RunIds == 1..MaxRunId

\* JobRun(run_id, job_id); two handles may carry the same run_id.
JobRun == [run_id : RunIds, job_id : {1, 2}]

NoStatus == "NONE"

SeqUpTo(S, n) == UNION {[1..k -> S] : k \in 0..n}

Range(s) == {s[k] : k \in DOMAIN s}

RunIdsOf(rs) == {rs[k].run_id : k \in DOMAIN rs}

----------------------------------------------------------------------------
(* The state of a component that is not running *)

NoRun == [run_id |-> 0, job_id |-> 0]

MonitorIdle ==
    /\ call = "none"
    /\ runs = <<>>
    /\ statuses = <<>>
    /\ finished = {}
    /\ failures = 0
    /\ idx = 1
    /\ run_id = 0
    /\ status = NoStatus
    /\ pc = "idle"
    /\ result = <<>>
    /\ terminalSeen = [id \in RunIds |-> NoStatus]
    /\ repolled = {}
    /\ completion = <<>>
    /\ tickPolled = <<>>

DispatchIdle ==
    /\ job_ids = <<>>
    /\ max_parallel = 0
    /\ dpc = "idle"
    /\ subIdx = 1
    /\ futures = <<>>
    /\ yielded = {}
    /\ started_runs = <<>>
    /\ dresult = <<>>
    /\ derror = "none"
    /\ nextRunId = 1
    /\ startLog = <<>>

\* Job.tags: a mapping or None
NoTags == [present |-> FALSE, map |-> {}]

EmptyTags == [present |-> TRUE, map |-> {}]

AbsentFile == [kind |-> "absent"]

NotLoaded == [kind |-> "not_called", jobs |-> <<>>]

NothingStored == [valid |-> FALSE, jobs |-> <<>>, at |-> 0]

CacheIdle ==
    /\ cache_file = AbsentFile
    /\ now = 0
    /\ clock_ticks = 0
    /\ env_ttl = [kind |-> "unset"]
    /\ env_disable = <<>>
    /\ remote_jobs = <<>>
    /\ cpc = "off"
    /\ loaded = NotLoaded
    /\ found = <<>>
    /\ fetched = FALSE
    /\ file_before = AbsentFile
    /\ cerror = "none"
    /\ stored = NothingStored

Invocations == {1, 2}

NoResult == [kind |-> "none", jobs |-> <<>>]

RaceIdle ==
    /\ rfile = [exists |-> FALSE, blocks |-> <<>>]
    /\ rpc = [p \in Invocations |-> "off"]
    /\ rcached = [p \in Invocations |-> NotLoaded]
    /\ rjobs = [p \in Invocations |-> <<>>]
    /\ rts = [p \in Invocations |-> 0]
    /\ rread = [p \in Invocations |-> AbsentFile]
    /\ rresult = [p \in Invocations |-> NoResult]

\* name=None
NoName == [given |-> FALSE, text |-> <<>>]

NoSelector == [type |-> "none", pattern |-> <<>>, key |-> <<>>, value |-> <<>>,
               selectors |-> <<>>]

NoError == [kind |-> "none", about |-> "none", text |-> <<>>]

SelectIdle ==
    /\ s_name = NoName
    /\ s_tags = <<>>
    /\ s_use_or = FALSE
    /\ s_inventory = <<>>
    /\ spc = "off"
    /\ s_selector = NoSelector
    /\ s_error = NoError
    /\ s_verdicts = <<>>
    /\ s_selected = <<>>
    /\ s_calls = 0

NoExit == 0 - 1

CliIdle ==
    /\ command = "none"
    /\ parallel = 0
    /\ confirm = FALSE
    /\ watch = FALSE
    /\ dry_run = FALSE
    /\ kpc = "off"
    /\ selected = <<>>
    /\ out = <<>>
    /\ results = <<>>
    /\ exit_code = NoExit

NoReturn == [kind |-> "none"]

CatalogIdle ==
    /\ u_op = "none"
    /\ u_names = <<>>
    /\ u_dry_run = FALSE
    /\ u_schema = <<>>
    /\ u_regex = NoName
    /\ u_force = FALSE
    /\ u_listed = <<>>
    /\ upc = "off"
    /\ u_i = 1
    /\ u_owner = "None"
    /\ u_tables = <<>>
    /\ u_results = <<>>
    /\ u_calls = <<>>
    /\ u_return = NoReturn

\* a Run whose state attribute is None
NoRunState == [has_state |-> FALSE, life_cycle_state |-> "None", result_state |-> "None"]

WorkspaceIdle ==
    /\ remote = [id \in RunIds |-> NoRunState]
    /\ answer = "not_asked"

SchemaDeleteIdle ==
    /\ yes = FALSE
    /\ plan = <<>>

PathIdle ==
    /\ p_ident = <<>>
    /\ p_disk = {}
    /\ p_read = <<>>

----------------------------------------------------------------------------
(* cli/common/progress.py: wait_for_runs_with_progress *)

\* lines 73-75: statuses, finished, failures before the loop
ProgressInit ==
    /\ call = "wait_for_runs_with_progress"
    /\ runs \in SeqUpTo(JobRun, MaxRuns)
    /\ statuses = [id \in RunIdsOf(runs) |-> "PENDING"]
    /\ finished = {}
    /\ failures = 0
    /\ idx = 1
    /\ run_id = 0
    /\ status = NoStatus
    /\ pc = "while"
    /\ result = <<>>

\* a plausible slip: leave the loop as soon as one run has finished
LoopContinuesUntilFirst == finished = {} /\ Len(runs) > 0

\* line 140: while len(finished) < len(runs)
LoopContinues == Cardinality(finished) < Len(runs)

\* line 177: [(r, statuses[r.run_id]) for r in runs]
ReturnValue == [k \in DOMAIN runs |-> <<runs[k], statuses[runs[k].run_id]>>]

\* lines 140-141 and 175-177: the loop test, then a new sweep or the return
ProgressWhile ==
    /\ call = "wait_for_runs_with_progress"
    /\ pc = "while"
    /\ IF LoopContinues
         THEN /\ pc' = "for"
              /\ idx' = 1
              /\ tickPolled' = <<>>
              /\ result' = result
         ELSE /\ pc' = "done"
              /\ result' = ReturnValue
              /\ UNCHANGED <<idx, tickPolled>>
    /\ UNCHANGED <<call, runs, statuses, finished, failures, run_id, status,
                   terminalSeen, repolled, completion>>
    /\ UNCHANGED notMonitor

\* a plausible slip: the sweep forgets to skip finished runs
SkipsNothing(rid) == FALSE

\* lines 142-143: a finished run is skipped
SkipsFinished(rid) == rid \in finished

ProgressSkip ==
    /\ call = "wait_for_runs_with_progress"
    /\ pc = "for"
    /\ idx <= Len(runs)
    /\ SkipsFinished(runs[idx].run_id)
    /\ idx' = idx + 1
    /\ UNCHANGED <<call, runs, statuses, finished, failures, run_id, status, pc,
                   result, terminalSeen, repolled, completion, tickPolled>>
    /\ UNCHANGED notMonitor

\* a plausible slip: UNKNOWN taken for a terminal status
MarksFinishedOnUnknown(st) == st \in {"SUCCESS", "FAILED", "CANCELED", "UNKNOWN"}

\* line 154: the statuses that mark a run finished
MarksFinished(st) == st \in {"SUCCESS", "FAILED", "CANCELED"}

\* a plausible slip: CANCELED left out of the failures tally
CountsOnlyFailed(st) == st = "FAILED"

\* line 158: the statuses that count as a failure
CountsAsFailure(st) == st \in {"FAILED", "CANCELED"}

\* lines 145-171: one status query and what it updates
ProgressPoll ==
    /\ call = "wait_for_runs_with_progress"
    /\ pc = "for"
    /\ idx <= Len(runs)
    /\ ~SkipsFinished(runs[idx].run_id)
    /\ \E st \in RunStatus :
         LET rid == runs[idx].run_id IN
         /\ statuses' = [statuses EXCEPT ![rid] = st]
         /\ IF MarksFinished(st)
              THEN /\ finished' = finished \cup {rid}
                   /\ failures' = IF CountsAsFailure(st) THEN failures + 1 ELSE failures
                   /\ completion' = Append(completion, rid)
              ELSE UNCHANGED <<finished, failures, completion>>
         /\ terminalSeen' = IF terminalSeen[rid] = NoStatus /\ st \in TerminalStatuses
                              THEN [terminalSeen EXCEPT ![rid] = st]
                              ELSE terminalSeen
         /\ repolled' = IF terminalSeen[rid] # NoStatus THEN repolled \cup {rid} ELSE repolled
         /\ tickPolled' = Append(tickPolled, rid)
    /\ idx' = idx + 1
    /\ UNCHANGED <<call, runs, run_id, status, pc, result>>
    /\ UNCHANGED notMonitor

\* a plausible slip: swallow the error and go on with the sweep
SwallowsQueryError == "for"

\* line 145: the call is in no try block, so its exception leaves the
\* function through the `with Live` block
AfterQueryError == "raised"

\* line 145: get_run_status raises; nothing catches it
ProgressPollRaises ==
    /\ call = "wait_for_runs_with_progress"
    /\ pc = "for"
    /\ idx <= Len(runs)
    /\ ~SkipsFinished(runs[idx].run_id)
    /\ pc' = AfterQueryError
    /\ repolled' = IF terminalSeen[runs[idx].run_id] # NoStatus
                     THEN repolled \cup {runs[idx].run_id} ELSE repolled
    /\ tickPolled' = Append(tickPolled, runs[idx].run_id)
    /\ UNCHANGED <<call, runs, statuses, finished, failures, idx, run_id, status,
                   result, terminalSeen, completion>>
    /\ UNCHANGED notMonitor

\* a plausible slip: the next sweep starts without a sleep
SweepWithoutSleep == "while"

\* line 173: time.sleep(poll_interval) closes every sweep
AfterSweep == "sleep"

\* line 173: the sweep is over, time.sleep(poll_interval)
ProgressSleep ==
    /\ call = "wait_for_runs_with_progress"
    /\ pc = "for"
    /\ idx > Len(runs)
    /\ pc' = AfterSweep
    /\ UNCHANGED <<call, runs, statuses, finished, failures, idx, run_id, status,
                   result, terminalSeen, repolled, completion, tickPolled>>
    /\ UNCHANGED notMonitor

\* the sleep returns, back to line 140
ProgressWake ==
    /\ call = "wait_for_runs_with_progress"
    /\ pc = "sleep"
    /\ pc' = "while"
    /\ UNCHANGED <<call, runs, statuses, finished, failures, idx, run_id, status,
                   result, terminalSeen, repolled, completion, tickPolled>>
    /\ UNCHANGED notMonitor

----------------------------------------------------------------------------
(* core/runs.py: wait_for_run *)

WaitInit ==
    /\ call = "wait_for_run"
    /\ runs = <<>>
    /\ statuses = <<>>
    /\ finished = {}
    /\ failures = 0
    /\ idx = 1
    /\ run_id \in RunIds
    /\ status = NoStatus
    /\ pc = "poll"
    /\ result = <<>>

\* a plausible slip: return on every status that is not an active one
WaitReturnsOnInactive(st) == st \notin {"PENDING", "RUNNING"}

\* lines 87-91: the statuses on which wait_for_run returns
WaitReturnsOn(st) == st \in {"SUCCESS", "FAILED", "CANCELED"}

\* lines 86-92: query, return if terminal
WaitPoll ==
    /\ call = "wait_for_run"
    /\ pc = "poll"
    /\ \E st \in RunStatus :
         /\ status' = st
         /\ IF WaitReturnsOn(st)
              THEN /\ pc' = "done"
                   /\ result' = st
              ELSE /\ pc' = "sleep"
                   /\ result' = result
         /\ terminalSeen' = IF terminalSeen[run_id] = NoStatus /\ st \in TerminalStatuses
                              THEN [terminalSeen EXCEPT ![run_id] = st]
                              ELSE terminalSeen
    /\ repolled' = IF terminalSeen[run_id] # NoStatus THEN repolled \cup {run_id} ELSE repolled
    /\ tickPolled' = <<run_id>>
    /\ UNCHANGED <<call, runs, statuses, finished, failures, idx, run_id, completion>>
    /\ UNCHANGED notMonitor

\* line 86: get_run_status raises
WaitPollRaises ==
    /\ call = "wait_for_run"
    /\ pc = "poll"
    /\ pc' = "raised"
    /\ tickPolled' = <<run_id>>
    /\ UNCHANGED <<call, runs, statuses, finished, failures, idx, run_id, status,
                   result, terminalSeen, repolled, completion>>
    /\ UNCHANGED notMonitor

\* line 94: time.sleep(poll_interval), then the loop repeats
WaitSleep ==
    /\ call = "wait_for_run"
    /\ pc = "sleep"
    /\ pc' = "poll"
    /\ tickPolled' = <<>>
    /\ UNCHANGED <<call, runs, statuses, finished, failures, idx, run_id, status,
                   result, terminalSeen, repolled, completion>>
    /\ UNCHANGED notMonitor

----------------------------------------------------------------------------
(* core/runs.py: start_jobs_parallel *)

JobIdValues == {1, 2}

\* the call: any list of job ids, any max_parallel (also 0 and negative)
DispatchInit ==
    /\ job_ids \in SeqUpTo(JobIdValues, MaxJobs)
    /\ max_parallel \in (0 - 1)..MaxParallel
    /\ dpc = "entry"
    /\ subIdx = 1
    /\ futures = <<>>
    /\ yielded = {}
    /\ started_runs = <<>>
    /\ dresult = <<>>
    /\ derror = "none"
    /\ nextRunId = 1
    /\ startLog = <<>>
    /\ MonitorIdle
    /\ CacheIdle
    /\ RaceIdle
    /\ SelectIdle
    /\ CliIdle
    /\ CatalogIdle
    /\ WorkspaceIdle
    /\ SchemaDeleteIdle
    /\ PathIdle

\* a plausible slip: the argument check left out
RejectsNothing(n) == FALSE

\* a plausible slip: the bound of the argument check off by one
RejectsParallelOffByOne(n) == n <= 1

\* line 50: if max_parallel < 1
RejectsParallel(n) == n < 1

\* lines 50-55: the argument check, the empty input, the empty result list
DispatchEntry ==
    /\ dpc = "entry"
    /\ IF RejectsParallel(max_parallel)
         THEN /\ dpc' = "raised"
              /\ derror' = "ValueError"
              /\ dresult' = dresult
         ELSE IF Len(job_ids) = 0
         THEN /\ dpc' = "returned"
              /\ dresult' = <<>>
              /\ derror' = derror
         ELSE /\ dpc' = "submit"
              /\ UNCHANGED <<dresult, derror>>
    /\ UNCHANGED <<job_ids, max_parallel, subIdx, futures, yielded, started_runs,
                   nextRunId, startLog>>
    /\ UNCHANGED notDispatch

\* line 58: pool.submit(adapter.start_job, job_id), one future per element
DispatchSubmit ==
    /\ dpc = "submit"
    /\ IF subIdx <= Len(job_ids)
         THEN /\ futures' = Append(futures, [state |-> "queued", job_id |-> job_ids[subIdx],
                                             run |-> NoRun])
              /\ subIdx' = subIdx + 1
              /\ dpc' = dpc
         ELSE /\ dpc' = "collect"
              /\ UNCHANGED <<futures, subIdx>>
    /\ UNCHANGED <<job_ids, max_parallel, yielded, started_runs, dresult, derror,
                   nextRunId, startLog>>
    /\ UNCHANGED notDispatch

InFlight == {i \in DOMAIN futures : futures[i].state = "running"}

Queued == {i \in DOMAIN futures : futures[i].state = "queued"}

\* a plausible slip: one thread per job, whatever max_parallel says
PoolSizeUnbounded == Len(job_ids)

\* line 57: ThreadPoolExecutor(max_workers=max_parallel)
PoolSize == max_parallel

\* a worker thread of the pool takes the oldest queued work item and calls
\* adapter.start_job(job_id)
WorkerStart ==
    /\ Queued # {}
    /\ Cardinality(InFlight) < PoolSize
    /\ LET i == CHOOSE q \in Queued : \A o \in Queued : q <= o IN
         /\ futures' = [futures EXCEPT ![i].state = "running"]
         /\ startLog' = Append(startLog, futures[i].job_id)
    /\ UNCHANGED <<job_ids, max_parallel, dpc, subIdx, yielded, started_runs, dresult,
                   derror, nextRunId>>
    /\ UNCHANGED notDispatch

\* adapters/databricksjobs.py lines 128-131: start_job returns its JobRun
WorkerDone ==
    /\ \E i \in InFlight :
         futures' = [futures EXCEPT ![i].state = "done",
                                    ![i].run = [run_id |-> nextRunId,
                                                job_id |-> futures[i].job_id]]
    /\ nextRunId' = nextRunId + 1
    /\ UNCHANGED <<job_ids, max_parallel, dpc, subIdx, yielded, started_runs, dresult,
                   derror, startLog>>
    /\ UNCHANGED notDispatch

\* a plausible slip: a failed start is put back into the queue
RetriesFailure == "queued"

\* runs.py line 58: the work item of a failed call is finished; nothing
\* submits it again
AfterFailure == "failed"

\* adapters/databricksjobs.py line 130: run_now raises; the future keeps the exception
WorkerFails ==
    /\ \E i \in InFlight :
         futures' = [futures EXCEPT ![i].state = AfterFailure]
    /\ UNCHANGED <<job_ids, max_parallel, dpc, subIdx, yielded, started_runs, dresult,
                   derror, nextRunId, startLog>>
    /\ UNCHANGED notDispatch

\* a plausible slip: the exception kept by a future is swallowed
ResultNeverRaises(f) == FALSE

\* line 61: f.result() raises the exception start_job raised in the worker
ResultRaises(f) == f.state = "failed"

\* a plausible slip: the result of a completed future is dropped
KeepsRuns(rs, r) == rs

\* line 61: runs.append(f.result())
AppendRun(rs, r) == Append(rs, r)

\* lines 60-61: as_completed hands over a completed future; f.result() gives
\* its run or raises its exception
DispatchCollect ==
    /\ dpc = "collect"
    /\ \E i \in DOMAIN futures \ yielded :
         /\ futures[i].state \in {"done", "failed"}
         /\ yielded' = yielded \cup {i}
         /\ IF ResultRaises(futures[i])
              THEN /\ dpc' = "unwind"
                   /\ derror' = "StartFailed"
                   /\ started_runs' = started_runs
              ELSE /\ started_runs' = AppendRun(started_runs, futures[i].run)
                   /\ UNCHANGED <<dpc, derror>>
    /\ UNCHANGED <<job_ids, max_parallel, subIdx, futures, dresult, nextRunId, startLog>>
    /\ UNCHANGED notDispatch

\* lines 60-63: every future was handed over; the with block ends, return runs
DispatchReturn ==
    /\ dpc = "collect"
    /\ yielded = DOMAIN futures
    /\ dpc' = "returned"
    /\ dresult' = started_runs
    /\ UNCHANGED <<job_ids, max_parallel, subIdx, futures, yielded, started_runs, derror,
                   nextRunId, startLog>>
    /\ UNCHANGED notDispatch

\* a plausible slip: shutdown(wait=False, cancel_futures=True), the exception
\* leaves at once and the queued work is dropped
ShutdownAtOnce == TRUE

\* line 57: ThreadPoolExecutor.__exit__ is shutdown(wait=True) without
\* cancel_futures: the workers drain the queue and are joined
ShutdownComplete == Queued = {} /\ InFlight = {}

\* line 57: leaving the with block on an exception runs shutdown(wait=True),
\* which waits for the queued and the running work items; then the exception
\* leaves the call
DispatchRaise ==
    /\ dpc = "unwind"
    /\ ShutdownComplete
    /\ dpc' = "raised"
    /\ UNCHANGED <<job_ids, max_parallel, subIdx, futures, yielded, started_runs, dresult,
                   derror, nextRunId, startLog>>
    /\ UNCHANGED notDispatch

DispatchNext ==
    \/ DispatchEntry
    \/ DispatchSubmit
    \/ WorkerStart
    \/ WorkerDone
    \/ WorkerFails
    \/ DispatchCollect
    \/ DispatchReturn
    \/ DispatchRaise

----------------------------------------------------------------------------
(* core/adapters/databricksjobs.py: the job inventory cache *)

DEFAULT_CACHE_TTL_SECONDS == 300

\* a plausible slip: the flag is compared as it is written
KeepsCase(c) == c

\* str.lower() on the letters the flag values use
Lower(c) ==
    CASE c = "T" -> "t"
      [] c = "R" -> "r"
      [] c = "U" -> "u"
      [] c = "E" -> "e"
      [] c = "Y" -> "y"
      [] c = "S" -> "s"
      [] c = "N" -> "n"
      [] c = "O" -> "o"
      [] OTHER -> c

IsSpace(c) == c = " "

RECURSIVE LStrip(_)
LStrip(str) ==
    IF Len(str) > 0 /\ IsSpace(Head(str)) THEN LStrip(Tail(str)) ELSE str

RECURSIVE RStrip(_)
RStrip(str) ==
    IF Len(str) > 0 /\ IsSpace(str[Len(str)])
      THEN RStrip(SubSeq(str, 1, Len(str) - 1))
      ELSE str

\* line 55: .strip().lower(), on a string given as its characters
StripLower(str) == [k \in DOMAIN RStrip(LStrip(str)) |-> Lower(RStrip(LStrip(str))[k])]

\* line 56: {"1", "true", "yes"}
DisableWords == {<<"1">>, <<"t", "r", "u", "e">>, <<"y", "e", "s">>}

\* lines 43-51: _cache_ttl_seconds; raw is unset, or a text int() parses or not
CacheTtlSeconds(raw) ==
    IF raw.kind = "unset" THEN DEFAULT_CACHE_TTL_SECONDS
    ELSE IF raw.parses THEN (IF raw.val > 0 THEN raw.val ELSE 0)
    ELSE DEFAULT_CACHE_TTL_SECONDS

\* lines 53-58: _cache_enabled
CacheEnabled(disable, raw) ==
    IF StripLower(disable) \in DisableWords THEN FALSE ELSE CacheTtlSeconds(raw) > 0

\* a plausible slip: an entry whose age equals the TTL counts as expired
ExpiredAtTtl(t, timestamp, ttl) == t - timestamp >= ttl

\* line 74: time.time() - float(timestamp) > self._cache_ttl_seconds()
Expired(t, timestamp, ttl) == t - timestamp > ttl

\* Job(id, name, tags)
Job(id, name, tags) == [id |-> id, name |-> name, tags |-> tags]

\* item.get("tags") or {} (line 83), job.tags or {} (lines 99, 121)
TagsOrEmpty(tags) == IF tags.present /\ tags.map # {} THEN tags ELSE EmptyTags

\* lines 76-88: the records of the entry; one lacking id or name is skipped
RECURSIVE ParseItems(_)
ParseItems(items) ==
    IF Len(items) = 0 THEN <<>>
    ELSE LET item == Head(items) IN
         IF item.has_id /\ item.has_name
           THEN <<Job(item.id, item.name, TagsOrEmpty(item.tags))>> \o ParseItems(Tail(items))
           ELSE ParseItems(Tail(items))

LoadNone == [kind |-> "None", jobs |-> <<>>]

LoadRaises == [kind |-> "raise", jobs |-> <<>>]

\* lines 60-88: _load_cached_jobs
LoadCachedJobs(file, t, disable, raw) ==
    IF ~CacheEnabled(disable, raw) THEN LoadNone
    ELSE IF file.kind = "absent" THEN LoadNone
    ELSE IF file.kind \in {"unreadable", "invalid_json"} THEN LoadNone
    ELSE IF file.value.type # "object" THEN LoadRaises
    ELSE IF file.value.timestamp.kind # "number" THEN LoadNone
    ELSE IF Expired(t, file.value.timestamp.val, CacheTtlSeconds(raw)) THEN LoadNone
    ELSE IF file.value.jobs.kind = "missing" THEN [kind |-> "jobs", jobs |-> <<>>]
    ELSE IF file.value.jobs.kind # "array" THEN LoadRaises
    ELSE [kind |-> "jobs", jobs |-> ParseItems(file.value.jobs.items)]

\* a plausible slip: the record written for a job leaves its tags out
ItemOfWithoutTags(job) ==
    [has_id |-> TRUE, id |-> job.id, has_name |-> TRUE, name |-> job.name,
     tags |-> NoTags]

\* lines 98-101: the record written for a job
ItemOf(job) ==
    [has_id |-> TRUE, id |-> job.id, has_name |-> TRUE, name |-> job.name,
     tags |-> TagsOrEmpty(job.tags)]

Entry(timestamp, items) ==
    [kind |-> "json",
     value |-> [type |-> "object",
                timestamp |-> [kind |-> "number", val |-> timestamp],
                jobs |-> [kind |-> "array", items |-> items]]]

\* lines 90-103: _store_cached_jobs, as the file it leaves
StoreCachedJobs(file, jobs, t, disable, raw) ==
    IF ~CacheEnabled(disable, raw) THEN file
    ELSE Entry(t, [k \in DOMAIN jobs |-> ItemOf(jobs[k])])

\* lines 113-123: the remote entries with settings and a name, as Jobs
RECURSIVE FetchLive(_)
FetchLive(listing) ==
    IF Len(listing) = 0 THEN <<>>
    ELSE LET j == Head(listing) IN
         IF ~j.has_settings \/ j.name = ""
           THEN FetchLive(Tail(listing))
           ELSE <<Job(j.job_id, j.name, TagsOrEmpty(j.tags))>> \o FetchLive(Tail(listing))

\* what the environment variables may hold
TtlValues ==
    {[kind |-> "unset"], [kind |-> "text", parses |-> FALSE, val |-> 0]}
      \cup {[kind |-> "text", parses |-> TRUE, val |-> v] : v \in {0 - 1, 0, 1}}

DisableValues ==
    {<<>>, <<"1">>, <<"T", "R", "U", "E">>, <<" ", "Y", "e", "s", " ">>, <<"n", "o">>}

EtlTags == [present |-> TRUE, map |-> {<<"team", "etl">>}]

RemoteEntry(id, has_settings, name, tags) ==
    [job_id |-> id, has_settings |-> has_settings, name |-> name, tags |-> tags]

\* what the workspace may list: jobs with and without tags, settings and name
RemoteListings ==
    {<<RemoteEntry(1, TRUE, "daily-etl", EtlTags), RemoteEntry(2, TRUE, "", NoTags),
       RemoteEntry(3, TRUE, "weekly-etl", NoTags)>>,
     <<RemoteEntry(4, FALSE, "", NoTags)>>}

\* records another writer may leave in the entry
ForeignItems ==
    {<<[has_id |-> TRUE, id |-> 7, has_name |-> TRUE, name |-> "adhoc", tags |-> NoTags],
       [has_id |-> FALSE, id |-> 0, has_name |-> TRUE, name |-> "orphan", tags |-> NoTags]>>}

\* what another process, an older version or a fault may leave on disk at time t
ForeignFiles(t) ==
    {AbsentFile, [kind |-> "unreadable"], [kind |-> "invalid_json"],
     [kind |-> "json", value |-> [type |-> "array"]]}
      \cup {[kind |-> "json",
             value |-> [type |-> "object", timestamp |-> ts, jobs |-> jobs]] :
              ts \in {[kind |-> "missing"], [kind |-> "string"],
                      [kind |-> "number", val |-> t]},
              jobs \in {[kind |-> "missing"], [kind |-> "null"]}
                         \cup {[kind |-> "array", items |-> items] : items \in ForeignItems}}

\* inventories a caller may hand to _store_cached_jobs: tags absent, empty, set
JobLists ==
    {<<>>,
     <<Job(1, "daily-etl", EtlTags)>>,
     <<Job(5, "adhoc", EmptyTags), Job(1, "daily-etl", EtlTags)>>,
     <<Job(1, "daily-etl", EtlTags), Job(3, "weekly-etl", NoTags)>>}

\* lines 94 and 103: mkdir or write_text raises OSError; a failed mkdir leaves
\* the file as it was, a failed write leaves it truncated
FailedWriteFiles(file) == {file, [kind |-> "invalid_json"]}

\* the record of a completed store
StoredNow(jobs, t) == [valid |-> TRUE, jobs |-> jobs, at |-> t]

CacheInit ==
    /\ cache_file = AbsentFile
    /\ now = 0
    /\ clock_ticks = 0
    /\ env_ttl \in TtlValues
    /\ env_disable \in DisableValues
    /\ remote_jobs \in RemoteListings
    /\ cpc = "idle"
    /\ loaded = NotLoaded
    /\ found = <<>>
    /\ fetched = FALSE
    /\ file_before = AbsentFile
    /\ cerror = "none"
    /\ stored = NothingStored
    /\ MonitorIdle
    /\ DispatchIdle
    /\ RaceIdle
    /\ SelectIdle
    /\ CliIdle
    /\ CatalogIdle
    /\ WorkspaceIdle
    /\ SchemaDeleteIdle
    /\ PathIdle

\* lines 90-103 as a step of the caller: the write succeeds or raises OSError
StoreStep(jobs, onSuccess, onError) ==
    IF ~CacheEnabled(env_disable, env_ttl)
      THEN /\ cpc' = onSuccess
           /\ UNCHANGED <<cache_file, cerror, stored>>
      ELSE \/ /\ cpc' = onSuccess
              /\ cache_file' = StoreCachedJobs(cache_file, jobs, now, env_disable, env_ttl)
              /\ stored' = StoredNow(jobs, now)
              /\ UNCHANGED cerror
           \/ /\ cpc' = onError
              /\ cerror' = "OSError"
              /\ cache_file' \in FailedWriteFiles(cache_file)
              /\ stored' = IF cache_file' = cache_file THEN stored ELSE NothingStored

\* lines 105-126: find_all_jobs
FindAllJobs ==
    /\ cpc = "idle"
    /\ file_before' = cache_file
    /\ LET cached == LoadCachedJobs(cache_file, now, env_disable, env_ttl)
           jobs == FetchLive(remote_jobs)
       IN
        /\ loaded' = cached
        /\ IF cached.kind = "raise"
             THEN /\ cpc' = "raised"
                  /\ cerror' = "AttributeError or TypeError"
                  /\ UNCHANGED <<found, fetched, cache_file, stored>>
           ELSE IF cached.kind = "jobs"
             THEN /\ cpc' = "returned"
                  /\ found' = cached.jobs
                  /\ UNCHANGED <<fetched, cache_file, cerror, stored>>
             ELSE /\ fetched' = TRUE
                  /\ StoreStep(jobs, "returned", "raised")
                  /\ found' = IF cpc' = "returned" THEN jobs ELSE <<>>
    /\ UNCHANGED <<now, clock_ticks, env_ttl, env_disable, remote_jobs>>
    /\ UNCHANGED notCache

\* lines 90-103: _store_cached_jobs called on its own
StoreCalled ==
    /\ cpc = "idle"
    /\ file_before' = cache_file
    /\ \E jobs \in JobLists : StoreStep(jobs, "stored", "store_raised")
    /\ UNCHANGED <<now, clock_ticks, env_ttl, env_disable, remote_jobs, loaded, found,
                   fetched>>
    /\ UNCHANGED notCache

\* lines 60-88: _load_cached_jobs called on its own
LoadCalled ==
    /\ cpc = "idle"
    /\ file_before' = cache_file
    /\ loaded' = LoadCachedJobs(cache_file, now, env_disable, env_ttl)
    /\ IF loaded'.kind = "raise"
         THEN cpc' = "load_raised" /\ cerror' = "AttributeError or TypeError"
         ELSE cpc' = "loaded" /\ UNCHANGED cerror
    /\ UNCHANGED <<cache_file, now, clock_ticks, env_ttl, env_disable, remote_jobs,
                   found, fetched, stored>>
    /\ UNCHANGED notCache

\* the invocation ends; the next one starts from scratch
InvocationEnds ==
    /\ cpc \in {"returned", "raised", "stored", "store_raised", "loaded", "load_raised"}
    /\ cpc' = "idle"
    /\ loaded' = NotLoaded
    /\ found' = <<>>
    /\ fetched' = FALSE
    /\ file_before' = AbsentFile
    /\ cerror' = "none"
    /\ UNCHANGED <<cache_file, now, clock_ticks, env_ttl, env_disable, remote_jobs,
                   stored>>
    /\ UNCHANGED notCache

\* time passes between invocations: a second, or just under the default TTL
ClockAdvances ==
    /\ cpc = "idle"
    /\ clock_ticks < MaxClockTicks
    /\ \E d \in {1, DEFAULT_CACHE_TTL_SECONDS - 1} : now' = now + d
    /\ clock_ticks' = clock_ticks + 1
    /\ UNCHANGED <<cache_file, env_ttl, env_disable, remote_jobs, cpc, loaded, found,
                   fetched, file_before, cerror, stored>>
    /\ UNCHANGED notCache

\* something else writes, damages or removes the file between invocations
FileReplaced ==
    /\ cpc = "idle"
    /\ cache_file' \in ForeignFiles(now)
    /\ stored' = NothingStored
    /\ UNCHANGED <<now, clock_ticks, env_ttl, env_disable, remote_jobs, cpc, loaded,
                   found, fetched, file_before, cerror>>
    /\ UNCHANGED notCache

CacheNext ==
    \/ FindAllJobs
    \/ StoreCalled
    \/ LoadCalled
    \/ InvocationEnds
    \/ ClockAdvances
    \/ FileReplaced

----------------------------------------------------------------------------------------------------------------------------------------------------
(* core/adapters/databricksjobs.py: two invocations, one cache file, no lock *)

\* write_text hands the text to the file in blocks; an inventory fills two:
\* the first holds the timestamp and the first half of the records
BlockOne(ts, items) ==
    [part |-> 1, ts |-> ts, items |-> SubSeq(items, 1, (Len(items) + 1) \div 2)]

BlockTwo(items) ==
    [part |-> 2, ts |-> 0, items |-> SubSeq(items, (Len(items) + 1) \div 2 + 1, Len(items))]

\* bytes never written, between the end of the file and a later block
Hole == [part |-> 0, ts |-> 0, items |-> <<>>]

\* a write of block b at the writer's own offset k
PutBlock(blocks, k, b) ==
    IF Len(blocks) >= k THEN [blocks EXCEPT ![k] = b]
    ELSE [j \in 1..k |-> IF j <= Len(blocks) THEN blocks[j] ELSE IF j = k THEN b ELSE Hole]

\* a plausible slip: a file that ends after its first block is read as an
\* entry with the records of that block
ReadFileLenient(file) ==
    IF ~file.exists THEN AbsentFile
    ELSE IF Len(file.blocks) >= 1 /\ file.blocks[1].part = 1
      THEN Entry(file.blocks[1].ts,
                 file.blocks[1].items
                   \o (IF Len(file.blocks) = 2 /\ file.blocks[2].part = 2
                         THEN file.blocks[2].items ELSE <<>>))
      ELSE [kind |-> "invalid_json"]

\* lines 65-72: exists(), read_text() and json.loads() on the bytes on disk;
\* a first block followed by a second block is a JSON object, whoever wrote
\* each; anything shorter or with a hole is not JSON
ReadFile(file) ==
    IF ~file.exists THEN AbsentFile
    ELSE IF Len(file.blocks) = 2 /\ file.blocks[1].part = 1 /\ file.blocks[2].part = 2
      THEN Entry(file.blocks[1].ts, file.blocks[1].items \o file.blocks[2].items)
      ELSE [kind |-> "invalid_json"]

\* the inventory an earlier invocation left in the entry at time 0
OldInventory == <<Job(7, "adhoc", EmptyTags), Job(8, "nightly", EmptyTags)>>

OldItems == [k \in DOMAIN OldInventory |-> ItemOf(OldInventory[k])]

RaceFiles ==
    {[exists |-> FALSE, blocks |-> <<>>],
     [exists |-> TRUE, blocks |-> <<BlockOne(0, OldItems), BlockTwo(OldItems)>>]}

RaceInit ==
    /\ rfile \in RaceFiles
    /\ rpc = [p \in Invocations |-> "start"]
    /\ rcached = [p \in Invocations |-> NotLoaded]
    /\ rjobs = [p \in Invocations |-> <<>>]
    /\ rts = [p \in Invocations |-> 0]
    /\ rread = [p \in Invocations |-> AbsentFile]
    /\ rresult = [p \in Invocations |-> NoResult]
    /\ now = 0
    /\ clock_ticks = 0
    /\ env_ttl \in TtlValues
    /\ env_disable \in DisableValues
    /\ remote_jobs \in RemoteListings
    /\ cache_file = AbsentFile
    /\ cpc = "off"
    /\ loaded = NotLoaded
    /\ found = <<>>
    /\ fetched = FALSE
    /\ file_before = AbsentFile
    /\ cerror = "none"
    /\ stored = NothingStored
    /\ MonitorIdle
    /\ DispatchIdle
    /\ SelectIdle
    /\ CliIdle
    /\ CatalogIdle
    /\ WorkspaceIdle
    /\ SchemaDeleteIdle
    /\ PathIdle

raceEnv == <<now, clock_ticks, env_ttl, env_disable, remote_jobs>>

\* line 107: cached = self._load_cached_jobs(); lines 108-109: a hit returns
RaceLoad(p) ==
    /\ rpc[p] = "start"
    /\ LET file == ReadFile(rfile)
           cached == LoadCachedJobs(file, now, env_disable, env_ttl)
       IN
        /\ rread' = [rread EXCEPT ![p] = file]
        /\ rcached' = [rcached EXCEPT ![p] = cached]
        /\ IF cached.kind = "raise"
             THEN rpc' = [rpc EXCEPT ![p] = "raised"] /\ UNCHANGED rresult
           ELSE IF cached.kind = "jobs"
             THEN /\ rpc' = [rpc EXCEPT ![p] = "done"]
                  /\ rresult' = [rresult EXCEPT ![p] = [kind |-> "jobs", jobs |-> cached.jobs]]
             ELSE rpc' = [rpc EXCEPT ![p] = "fetch"] /\ UNCHANGED rresult
    /\ UNCHANGED <<rfile, rjobs, rts, raceEnv>>
    /\ UNCHANGED notRace

\* lines 111-123: the live fetch; lines 92-93, 126: with caching disabled the
\* store does nothing and the inventory is returned
RaceFetch(p) ==
    /\ rpc[p] = "fetch"
    /\ rjobs' = [rjobs EXCEPT ![p] = FetchLive(remote_jobs)]
    /\ IF CacheEnabled(env_disable, env_ttl)
         THEN rpc' = [rpc EXCEPT ![p] = "open"] /\ UNCHANGED rresult
         ELSE /\ rpc' = [rpc EXCEPT ![p] = "done"]
              /\ rresult' = [rresult EXCEPT ![p] = [kind |-> "jobs", jobs |-> rjobs'[p]]]
    /\ UNCHANGED <<rfile, rcached, rts, rread, raceEnv>>
    /\ UNCHANGED notRace

\* lines 94-103: the payload is built with time.time() and write_text opens
\* the file for writing, which creates it or cuts it to length 0
RaceOpen(p) ==
    /\ rpc[p] = "open"
    /\ rts' = [rts EXCEPT ![p] = now]
    /\ rfile' = [exists |-> TRUE, blocks |-> <<>>]
    /\ rpc' = [rpc EXCEPT ![p] = "write1"]
    /\ UNCHANGED <<rcached, rjobs, rread, rresult, raceEnv>>
    /\ UNCHANGED notRace

\* the items of an invocation's payload
PayloadItems(p) == [k \in DOMAIN rjobs[p] |-> ItemOf(rjobs[p][k])]

\* line 103: the first block reaches the file
RaceWriteFirst(p) ==
    /\ rpc[p] = "write1"
    /\ rfile' = [rfile EXCEPT !.blocks = PutBlock(@, 1, BlockOne(rts[p], PayloadItems(p)))]
    /\ rpc' = [rpc EXCEPT ![p] = "write2"]
    /\ UNCHANGED <<rcached, rjobs, rts, rread, rresult, raceEnv>>
    /\ UNCHANGED notRace

\* line 103: the second block reaches the file; line 126: return jobs
RaceWriteSecond(p) ==
    /\ rpc[p] = "write2"
    /\ rfile' = [rfile EXCEPT !.blocks = PutBlock(@, 2, BlockTwo(PayloadItems(p)))]
    /\ rpc' = [rpc EXCEPT ![p] = "done"]
    /\ rresult' = [rresult EXCEPT ![p] = [kind |-> "jobs", jobs |-> rjobs[p]]]
    /\ UNCHANGED <<rcached, rjobs, rts, rread, raceEnv>>
    /\ UNCHANGED notRace

\* time passes while the invocations run
RaceClock ==
    /\ clock_ticks < MaxClockTicks
    /\ \E d \in {1, DEFAULT_CACHE_TTL_SECONDS - 1} : now' = now + d
    /\ clock_ticks' = clock_ticks + 1
    /\ UNCHANGED <<env_ttl, env_disable, remote_jobs, raceVars>>
    /\ UNCHANGED notRace

\* the workspace's jobs change between two listings
RaceRemoteChanges ==
    /\ \E p \in Invocations : rpc[p] \in {"start", "fetch"}
    /\ remote_jobs' \in RemoteListings \ {remote_jobs}
    /\ UNCHANGED <<now, clock_ticks, env_ttl, env_disable, raceVars>>
    /\ UNCHANGED notRace

RaceNext ==
    \/ \E p \in Invocations : RaceLoad(p)
    \/ \E p \in Invocations : RaceFetch(p)
    \/ \E p \in Invocations : RaceOpen(p)
    \/ \E p \in Invocations : RaceWriteFirst(p)
    \/ \E p \in Invocations : RaceWriteSecond(p)
    \/ RaceClock
    \/ RaceRemoteChanges

----------------------------------------------------------------------------
(* core/selectors.py, cli/common/selector_builder.py, core/jobs.py: selection *)

\* strings are given as their characters
NameRegexSelector(pattern) ==
    [type |-> "name", pattern |-> pattern, key |-> <<>>, value |-> <<>>, selectors |-> <<>>]

TagSelector(key, value) ==
    [type |-> "tag", pattern |-> <<>>, key |-> key, value |-> value, selectors |-> <<>>]

AndSelector(selectors) ==
    [type |-> "and", pattern |-> <<>>, key |-> <<>>, value |-> <<>>, selectors |-> selectors]

OrSelector(selectors) ==
    [type |-> "or", pattern |-> <<>>, key |-> <<>>, value |-> <<>>, selectors |-> selectors]

\* selectors.py line 59: re.compile raises re.error; of the patterns used here
\* (literal characters, ".", a leading "^") those with a "(" never closed
CompileFails(pattern) == \E k \in DOMAIN pattern : pattern[k] = "("

Anchored(pattern) == Len(pattern) > 0 /\ pattern[1] = "^"

PatternBody(pattern) == IF Anchored(pattern) THEN Tail(pattern) ELSE pattern

\* the pattern's characters match the text from position i on
MatchesAt(body, text, i) ==
    /\ i + Len(body) - 1 <= Len(text)
    /\ \A k \in DOMAIN body : body[k] = "." \/ body[k] = text[i + k - 1]

\* selectors.py line 67: bool(self.regex.search(job.name))
Search(pattern, text) ==
    \E i \in (IF Anchored(pattern) THEN {1} ELSE 1..(Len(text) + 1)) :
        MatchesAt(PatternBody(pattern), text, i)

\* job.tags.get(key): the value, or None
TagsGet(tags, key) ==
    IF \E pr \in tags.map : pr[1] = key
      THEN [found |-> TRUE, val |-> (CHOOSE pr \in tags.map : pr[1] = key)[2]]
      ELSE [found |-> FALSE, val |-> <<>>]

\* a plausible slip: the tag's key is looked up, its value is not compared
TagMatchesKeyOnly(sel, job) == TagsGet(job.tags, sel.key).found

\* selectors.py lines 86-92: TagSelector.matches
TagMatches(sel, job) ==
    IF ~job.tags.present \/ job.tags.map = {} THEN FALSE
    ELSE TagsGet(job.tags, sel.key).found /\ TagsGet(job.tags, sel.key).val = sel.value

RECURSIVE Matches(_, _), AllMatch(_, _), AnyMatch(_, _)

\* a plausible slip: only the first child decides
FirstMatches(selectors, job) == selectors = <<>> \/ Matches(Head(selectors), job)

\* selectors.py line 113: all(s.matches(job) for s in self.selectors)
AllMatch(selectors, job) ==
    IF selectors = <<>> THEN TRUE
    ELSE IF ~Matches(Head(selectors), job) THEN FALSE
    ELSE AllMatch(Tail(selectors), job)

\* selectors.py line 134: any(s.matches(job) for s in self.selectors)
AnyMatch(selectors, job) ==
    IF selectors = <<>> THEN FALSE
    ELSE IF Matches(Head(selectors), job) THEN TRUE
    ELSE AnyMatch(Tail(selectors), job)

\* selector.matches(job), by the selector's class
Matches(sel, job) ==
    CASE sel.type = "name" -> Search(sel.pattern, job.name)
      [] sel.type = "tag" -> TagMatches(sel, job)
      [] sel.type = "and" -> AllMatch(sel.selectors, job)
      [] sel.type = "or" -> AnyMatch(sel.selectors, job)

\* a plausible slip: the inventory is returned unfiltered
SelectsAll(inventory, selector) == inventory

\* jobs.py line 114: [job for job in adapter.find_all_jobs() if selector.matches(job)]
RECURSIVE SelectJobsFrom(_, _)
SelectJobsFrom(inventory, selector) ==
    IF inventory = <<>> THEN <<>>
    ELSE (IF Matches(selector, Head(inventory)) THEN <<Head(inventory)>> ELSE <<>>)
           \o SelectJobsFrom(Tail(inventory), selector)

\* selector_builder.py line 57: "=" not in tag
HasEquals(tag) == \E k \in DOMAIN tag : tag[k] = "="

\* selector_builder.py line 60: tag.split("=", 1), the part before the first "="
RECURSIVE BeforeEquals(_)
BeforeEquals(tag) ==
    IF tag = <<>> \/ Head(tag) = "=" THEN <<>>
    ELSE <<Head(tag)>> \o BeforeEquals(Tail(tag))

\* selector_builder.py line 60: tag.split("=", 1), the part after the first "="
RECURSIVE AfterEquals(_)
AfterEquals(tag) ==
    IF tag = <<>> THEN <<>>
    ELSE IF Head(tag) = "=" THEN Tail(tag)
    ELSE AfterEquals(Tail(tag))

\* selector_builder.py lines 56-61: the loop over the tag strings
RECURSIVE TagLoop(_, _)
TagLoop(selectors, tags) ==
    IF tags = <<>> THEN [ok |-> TRUE, selectors |-> selectors, bad |-> <<>>]
    ELSE IF ~HasEquals(Head(tags))
      THEN [ok |-> FALSE, selectors |-> selectors, bad |-> Head(tags)]
    ELSE TagLoop(Append(selectors,
                        TagSelector(BeforeEquals(Head(tags)), AfterEquals(Head(tags)))),
                 Tail(tags))

Built(selector) == [ok |-> TRUE, selector |-> selector, error |-> NoError]

Raised(about, text) ==
    [ok |-> FALSE, selector |-> NoSelector,
     error |-> [kind |-> "ValueError", about |-> about, text |-> text]]

\* a plausible slip: the two combinators are swapped
CombineSwapped(selectors, use_or) ==
    IF use_or THEN AndSelector(selectors) ELSE OrSelector(selectors)

\* selector_builder.py line 69
Combine(selectors, use_or) ==
    IF use_or THEN OrSelector(selectors) ELSE AndSelector(selectors)

\* selector_builder.py line 53: if name
NameGiven(name) == name.given /\ name.text # <<>>

\* selector_builder.py lines 51-69: build_selector
BuildSelectorOf(name, tags, use_or) ==
    IF NameGiven(name) /\ CompileFails(name.text) THEN Raised("regex", name.text)
    ELSE LET loop == TagLoop(IF NameGiven(name) THEN <<NameRegexSelector(name.text)>>
                                                ELSE <<>>,
                             tags)
         IN IF ~loop.ok THEN Raised("tag", loop.bad)
            ELSE IF loop.selectors = <<>> THEN Raised("no selector", <<>>)
            ELSE IF Len(loop.selectors) = 1 THEN Built(loop.selectors[1])
            ELSE Built(Combine(loop.selectors, use_or))

\* the name arguments: None, "", "a", "^b", "("
NameArgs ==
    {NoName} \cup {[given |-> TRUE, text |-> t] : t \in {<<>>, <<"a">>, <<"^", "b">>, <<"(">>}}

\* the tag arguments: none; "t=e"; "t=e","k=v"; "te"; "t=e","te"; "=e";
\* "t=e=x"; "k="
TagArgs ==
    {<<>>,
     << <<"t", "=", "e">> >>,
     << <<"t", "=", "e">>, <<"k", "=", "v">> >>,
     << <<"t", "e">> >>,
     << <<"t", "=", "e">>, <<"t", "e">> >>,
     << <<"=", "e">> >>,
     << <<"t", "=", "e", "=", "x">> >>,
     << <<"k", "=">> >>}

SelTags(pairs) == [present |-> TRUE, map |-> pairs]

JobAb == Job(1, <<"a", "b">>, SelTags({<< <<"t">>, <<"e">> >>}))

JobBa == Job(2, <<"b", "a">>, NoTags)

JobC == Job(3, <<"c">>, SelTags({<< <<"t">>, <<"e">> >>, << <<"k">>, <<"v">> >>}))

JobB == Job(4, <<"b">>, EmptyTags)

JobX == Job(5, <<"x", "b">>, SelTags({<< <<"t">>, <<"e", "=", "x">> >>, << <<"k">>, <<>> >>}))

\* inventories the adapter may return; a job may be listed twice
Inventories ==
    {<<>>,
     <<JobAb, JobBa, JobC>>,
     <<JobC, JobB, JobAb, JobC>>,
     <<JobX, JobBa, JobAb, JobB>>}

\* selectors a caller constructs directly, composites of composites included
DirectSelectors ==
    LET te == TagSelector(<<"t">>, <<"e">>)
        kv == TagSelector(<<"k">>, <<"v">>)
        kx == TagSelector(<<"k">>, <<"x">>)
        zz == TagSelector(<<"z">>, <<"z">>)
        a == NameRegexSelector(<<"a">>)
        b == NameRegexSelector(<<"^", "b">>)
    IN {te, kx, zz,
        AndSelector(<<te, a>>), OrSelector(<<kv, b>>),
        AndSelector(<<kv>>), OrSelector(<<zz>>),
        AndSelector(<<OrSelector(<<kv, b>>), te>>),
        OrSelector(<<AndSelector(<<te, a>>), kx, b>>),
        AndSelector(<<OrSelector(<<a, kv>>), OrSelector(<<b, te>>)>>)}

SelectInit ==
    /\ s_name \in NameArgs
    /\ s_tags \in TagArgs
    /\ s_use_or \in BOOLEAN
    /\ s_inventory \in Inventories
    /\ spc = "start"
    /\ s_selector = NoSelector
    /\ s_error = NoError
    /\ s_verdicts = <<>>
    /\ s_selected = <<>>
    /\ s_calls = 0
    /\ MonitorIdle
    /\ DispatchIdle
    /\ CacheIdle
    /\ RaceIdle
    /\ CliIdle
    /\ CatalogIdle
    /\ WorkspaceIdle
    /\ SchemaDeleteIdle
    /\ PathIdle

\* selector_builder.py lines 51-69: build_selector returns or raises
BuildSelector ==
    /\ spc = "start"
    /\ LET built == BuildSelectorOf(s_name, s_tags, s_use_or) IN
        /\ spc' = IF built.ok THEN "built" ELSE "invalid"
        /\ s_selector' = built.selector
        /\ s_error' = built.error
    /\ UNCHANGED <<s_name, s_tags, s_use_or, s_inventory, s_verdicts, s_selected, s_calls>>
    /\ UNCHANGED notSelect

\* selectors.py: the caller constructs a selector from the classes
ConstructSelector ==
    /\ spc = "start"
    /\ s_selector' \in DirectSelectors
    /\ spc' = "constructed"
    /\ UNCHANGED <<s_name, s_tags, s_use_or, s_inventory, s_error, s_verdicts, s_selected,
                   s_calls>>
    /\ UNCHANGED notSelect

\* jobs.py lines 99-114: select_jobs
SelectJobs ==
    /\ spc \in {"built", "constructed"}
    /\ s_calls' = s_calls + 1
    /\ s_verdicts' = [k \in DOMAIN s_inventory |-> Matches(s_selector, s_inventory[k])]
    /\ s_selected' = SelectJobsFrom(s_inventory, s_selector)
    /\ spc' = "selected"
    /\ UNCHANGED <<s_name, s_tags, s_use_or, s_inventory, s_selector, s_error>>
    /\ UNCHANGED notSelect

SelectNext ==
    \/ BuildSelector
    \/ ConstructSelector
    \/ SelectJobs

----------------------------------------------------------------------------
(* cli/commands/jobs.py: the find and run commands *)

\* the names, tag lists and inventories the commands are invoked with
CliNames == {NoName} \cup {[given |-> TRUE, text |-> t] : t \in {<<"a">>, <<"(">>}}

CliTags == {<<>>, << <<"t", "=", "e">> >>, << <<"t", "e">> >>}

CliInventories == {<<>>, <<JobAb, JobBa>>, <<JobC, JobAb>>}

\* the k-th smallest member of a set of positions
KthOf(S, k) == CHOOSE i \in S : Cardinality({j \in S : j < i}) = k - 1

\* the checked choices of a checkbox prompt, in the order they are shown
Checked(jobs, S) == [k \in 1..Cardinality(S) |-> jobs[KthOf(S, k)]]

\* cli/common/exits.py: ok_exit, and warn_exit(message, code=0)
ExitOk == 0

\* a plausible slip: die leaves with the success code
DieCodeZero == ExitOk

\* exits.py: die(message, code=1)
ExitError == 1

\* an exception nobody catches ends the process with Python's exit code 1
ExitUncaught == 1

\* options.py: find has no parallel, confirm, watch or dry-run option
FindOptions ==
    /\ parallel = 5
    /\ confirm = TRUE
    /\ watch = FALSE
    /\ dry_run = FALSE

\* the command line: find or run, with any selector arguments and options
CliInit ==
    /\ command \in {"find", "run"}
    /\ s_name \in CliNames
    /\ s_tags \in CliTags
    /\ s_use_or \in BOOLEAN
    /\ s_inventory \in CliInventories
    /\ IF command = "find"
         THEN FindOptions
         ELSE /\ parallel \in (0 - 1)..MaxParallel
              /\ confirm \in BOOLEAN
              /\ watch \in BOOLEAN
              /\ dry_run \in BOOLEAN
    /\ kpc = "command"
    /\ spc = "start"
    /\ s_selector = NoSelector
    /\ s_error = NoError
    /\ s_verdicts = <<>>
    /\ s_selected = <<>>
    /\ s_calls = 0
    /\ selected = <<>>
    /\ out = <<>>
    /\ results = <<>>
    /\ exit_code = NoExit
    /\ MonitorIdle
    /\ DispatchIdle
    /\ CacheIdle
    /\ RaceIdle
    /\ CatalogIdle
    /\ WorkspaceIdle
    /\ SchemaDeleteIdle
    /\ PathIdle

cliOptions == <<command, parallel, confirm, watch, dry_run>>

selArgs == <<s_name, s_tags, s_use_or, s_inventory>>

\* the variables of the other components a command's own step leaves alone
cliRest == <<cacheVars, raceVars, ucVars, wsVars, sdVars, pathVars>>

\* lines 65-68 and 95-98: build_selector raised ValueError; die(str(e), code=1)
CliDie ==
    /\ kpc = "command"
    /\ spc = "invalid"
    /\ out' = Append(out, "error")
    /\ exit_code' = ExitError
    /\ kpc' = "exited"
    /\ UNCHANGED <<cliOptions, selected, results>>
    /\ UNCHANGED <<monVars, dispVars, selVars, cliRest>>

\* lines 70-71 and 100-101: adapter.find_all_jobs raises inside select_jobs;
\* nothing catches the exception
CliListingRaises ==
    /\ kpc = "command"
    /\ spc = "built"
    /\ s_calls' = s_calls + 1
    /\ spc' = "listing_raised"
    /\ exit_code' = ExitUncaught
    /\ kpc' = "exited"
    /\ UNCHANGED <<cliOptions, selected, out, results>>
    /\ UNCHANGED <<selArgs, s_selector, s_error, s_verdicts, s_selected>>
    /\ UNCHANGED <<monVars, dispVars, cliRest>>

\* lines 73-74 and 103-104: if not jobs: warn_exit("No jobs found", code=0)
CliNoJobs ==
    /\ kpc = "command"
    /\ spc = "selected"
    /\ s_selected = <<>>
    /\ out' = Append(out, "No jobs found")
    /\ exit_code' = ExitOk
    /\ kpc' = "exited"
    /\ UNCHANGED <<cliOptions, selected, results>>
    /\ UNCHANGED <<monVars, dispVars, selVars, cliRest>>

\* line 76: find prints the matched jobs and returns
CliFindPrints ==
    /\ command = "find"
    /\ kpc = "command"
    /\ spc = "selected"
    /\ s_selected # <<>>
    /\ out' = Append(out, "jobs_table")
    /\ exit_code' = ExitOk
    /\ kpc' = "exited"
    /\ UNCHANGED <<cliOptions, selected, results>>
    /\ UNCHANGED <<monVars, dispVars, selVars, cliRest>>

\* line 106 and tui.py lines 47-53: the user checks any of the matched jobs,
\* or none, or leaves the prompt (ask() gives None, which becomes [])
CliTuiSelect ==
    /\ command = "run"
    /\ kpc = "command"
    /\ spc = "selected"
    /\ s_selected # <<>>
    /\ \E S \in SUBSET DOMAIN s_selected : selected' = Checked(s_selected, S)
    /\ kpc' = "chosen"
    /\ UNCHANGED <<cliOptions, out, results, exit_code>>
    /\ UNCHANGED <<monVars, dispVars, selVars, cliRest>>

\* lines 108-109: if not selected: warn_exit("No jobs selected", code=0)
CliNothingSelected ==
    /\ kpc = "chosen"
    /\ selected = <<>>
    /\ out' = Append(out, "No jobs selected")
    /\ exit_code' = ExitOk
    /\ kpc' = "exited"
    /\ UNCHANGED <<cliOptions, selected, results>>
    /\ UNCHANGED <<monVars, dispVars, selVars, cliRest>>

\* lines 111-112: the selected jobs are printed
CliPrintsSelected ==
    /\ kpc = "chosen"
    /\ selected # <<>>
    /\ out' = Append(out, "jobs_table")
    /\ kpc' = "dry_run"
    /\ UNCHANGED <<cliOptions, selected, results, exit_code>>
    /\ UNCHANGED <<monVars, dispVars, selVars, cliRest>>

\* a plausible slip: the flag is not looked at
DryRunIgnored == FALSE

\* line 115: if dry_run
DryRunStops == dry_run

\* lines 115-116: if dry_run: warn_exit("Dry-run enabled...", code=0)
CliDryRun ==
    /\ kpc = "dry_run"
    /\ DryRunStops
    /\ out' = Append(out, "Dry-run enabled")
    /\ exit_code' = ExitOk
    /\ kpc' = "exited"
    /\ UNCHANGED <<cliOptions, selected, results>>
    /\ UNCHANGED <<monVars, dispVars, selVars, cliRest>>

\* a plausible slip: the prompt is never shown
AsksNever == FALSE

\* line 118: `confirm and ...`: Confirm.ask is called only with --confirm
AsksConfirmation == confirm

\* lines 118-119: the user declines the confirmation; ok_exit("Cancelled")
CliCancelled ==
    /\ kpc = "dry_run"
    /\ ~DryRunStops
    /\ AsksConfirmation
    /\ answer' = "no"
    /\ out' = Append(out, "Cancelled")
    /\ exit_code' = ExitOk
    /\ kpc' = "exited"
    /\ UNCHANGED <<cliOptions, selected, results>>
    /\ UNCHANGED <<monVars, dispVars, selVars, cacheVars, raceVars, ucVars, remote, sdVars,
                   pathVars>>

\* line 122: [j.id for j in selected]
IdsOf(jobs) == [k \in DOMAIN jobs |-> jobs[k].id]

\* lines 118-122: no confirmation asked, or the user agrees; the call
\* start_jobs_parallel(appctx.adapter, [j.id for j in selected], parallel)
CliStartJobs ==
    /\ kpc = "dry_run"
    /\ ~DryRunStops
    /\ answer' = IF AsksConfirmation THEN "yes" ELSE answer
    /\ job_ids' = IdsOf(selected)
    /\ max_parallel' = parallel
    /\ dpc' = "entry"
    /\ kpc' = "starting"
    /\ UNCHANGED <<subIdx, futures, yielded, started_runs, dresult, derror, nextRunId,
                   startLog>>
    /\ UNCHANGED <<cliOptions, selected, out, results, exit_code>>
    /\ UNCHANGED <<monVars, selVars, cacheVars, raceVars, ucVars, remote, sdVars, pathVars>>

\* line 122: start_jobs_parallel raised (ValueError for parallel < 1, or the
\* exception of a failed start); nothing catches it
CliStartFails ==
    /\ kpc = "starting"
    /\ dpc = "raised"
    /\ exit_code' = ExitUncaught
    /\ kpc' = "exited"
    /\ UNCHANGED <<cliOptions, selected, out, results>>
    /\ UNCHANGED <<monVars, dispVars, selVars, cliRest>>

\* lines 124-125: the started runs are printed
CliPrintsStarted ==
    /\ kpc = "starting"
    /\ dpc = "returned"
    /\ out' = Append(out, "runs_table")
    /\ kpc' = "started"
    /\ UNCHANGED <<cliOptions, selected, results, exit_code>>
    /\ UNCHANGED <<monVars, dispVars, selVars, cliRest>>

\* line 127: without --watch the command returns
CliReturns ==
    /\ kpc = "started"
    /\ ~watch
    /\ exit_code' = ExitOk
    /\ kpc' = "exited"
    /\ UNCHANGED <<cliOptions, selected, out, results>>
    /\ UNCHANGED <<monVars, dispVars, selVars, cliRest>>

\* lines 127-128: the call wait_for_runs_with_progress(adapter, runs), up to
\* progress.py lines 73-75
CliWatch ==
    /\ kpc = "started"
    /\ watch
    /\ call' = "wait_for_runs_with_progress"
    /\ runs' = dresult
    /\ statuses' = [id \in RunIdsOf(dresult) |-> "PENDING"]
    /\ finished' = {}
    /\ failures' = 0
    /\ idx' = 1
    /\ pc' = "while"
    /\ kpc' = "watching"
    /\ UNCHANGED <<run_id, status, result, terminalSeen, repolled, completion, tickPolled>>
    /\ UNCHANGED <<cliOptions, selected, out, results, exit_code>>
    /\ UNCHANGED <<dispVars, selVars, cliRest>>

\* line 128: get_run_status raised inside the monitor; nothing catches it
CliWatchRaises ==
    /\ kpc = "watching"
    /\ pc = "raised"
    /\ exit_code' = ExitUncaught
    /\ kpc' = "exited"
    /\ UNCHANGED <<cliOptions, selected, out, results>>
    /\ UNCHANGED <<monVars, dispVars, selVars, cliRest>>

\* lines 128-130: the monitor returned; out.run_status_table(results)
CliReport ==
    /\ kpc = "watching"
    /\ pc = "done"
    /\ results' = result
    /\ out' = Append(out, "run_status_table")
    /\ kpc' = "reported"
    /\ UNCHANGED <<cliOptions, selected, exit_code>>
    /\ UNCHANGED <<monVars, dispVars, selVars, cliRest>>

\* a plausible slip: only FAILED counts as a failed run
AnyFailedOnly(res) == \E k \in DOMAIN res : res[k][2] = "FAILED"

\* line 132: any(status != RunStatus.SUCCESS for _, status in results)
AnyNotSuccess(res) == \E k \in DOMAIN res : res[k][2] # "SUCCESS"

\* lines 132-134: raise typer.Exit(1) if failed, else the command returns
CliWatchExit ==
    /\ kpc = "reported"
    /\ exit_code' = IF AnyNotSuccess(results) THEN ExitError ELSE ExitOk
    /\ kpc' = "exited"
    /\ UNCHANGED <<cliOptions, selected, out, results>>
    /\ UNCHANGED <<monVars, dispVars, selVars, cliRest>>

CliNext ==
    \/ BuildSelector
    \/ SelectJobs
    \/ CliDie
    \/ CliListingRaises
    \/ CliNoJobs
    \/ CliFindPrints
    \/ CliTuiSelect
    \/ CliNothingSelected
    \/ CliPrintsSelected
    \/ CliDryRun
    \/ CliCancelled
    \/ CliStartJobs
    \/ DispatchEntry
    \/ DispatchSubmit
    \/ WorkerStart
    \/ WorkerDone
    \/ WorkerFails
    \/ DispatchCollect
    \/ DispatchReturn
    \/ DispatchRaise
    \/ CliStartFails
    \/ CliPrintsStarted
    \/ CliReturns
    \/ CliWatch
    \/ ProgressWhile
    \/ ProgressSkip
    \/ ProgressPoll
    \/ ProgressPollRaises
    \/ ProgressSleep
    \/ ProgressWake
    \/ CliWatchRaises
    \/ CliReport
    \/ CliWatchExit

----------------------------------------------------------------------------
(* core/catalog.py: the bulk catalog operations *)

TableA == <<"s", ".", "a">>

TableB == <<"s", ".", "b">>

\* the lists of names the bulk functions are called with; a name may repeat
NameLists == SeqUpTo({TableA, TableB}, MaxTables)

\* what adapter.list_tables may return
UCTable(full_name) == [full_name |-> full_name]

Listings == {<<>>, <<UCTable(TableB)>>, <<UCTable(TableA), UCTable(TableB)>>}

\* schema_full_name: "m.s", " m.s ", "m", "m.s.t", ".s"
SchemaArgs ==
    {<<"m", ".", "s">>, <<" ", "m", ".", "s", " ">>, <<"m">>,
     <<"m", ".", "s", ".", "t">>, <<".", "s">>}

\* table_name_regex: None, "", "a", "^s.b", "("
RegexArgs ==
    {NoName} \cup {[given |-> TRUE, text |-> t] :
                      t \in {<<>>, <<"a">>, <<"^", "s", ".", "b">>, <<"(">>}}

\* unitycatalog.py lines 14-20: the user name current_username returns
Me == "me@example.com"

\* one adapter call as the adapter saw it, and whether it returned or raised
AdapterCall(op, name, arg, ok) == [op |-> op, name |-> name, arg |-> arg, ok |-> ok]

MutatingOps == {"set_schema_owner", "set_table_owner", "delete_table", "delete_schema"}

\* str.split(sep)
RECURSIVE SplitOn(_, _)
SplitOn(str, c) ==
    IF \A k \in DOMAIN str : str[k] # c
      THEN <<str>>
      ELSE LET k == CHOOSE i \in DOMAIN str :
                        str[i] = c /\ \A j \in 1..(i - 1) : str[j] # c
           IN <<SubSeq(str, 1, k - 1)>> \o SplitOn(SubSeq(str, k + 1, Len(str)), c)

\* lines 21-29: parse_schema_full_name
ParseSchemaFullName(name) ==
    LET parts == SplitOn(RStrip(LStrip(name)), ".") IN
    IF Len(parts) # 2 THEN [ok |-> FALSE, catalog |-> <<>>, schema |-> <<>>]
    ELSE IF parts[1] = <<>> \/ parts[2] = <<>>
      THEN [ok |-> FALSE, catalog |-> <<>>, schema |-> <<>>]
    ELSE [ok |-> TRUE, catalog |-> parts[1], schema |-> parts[2]]

\* the positions of a list that meet a test, as a list in the same order
RECURSIVE Keep(_, _)
Keep(tables, pattern) ==
    IF tables = <<>> THEN <<>>
    ELSE IF Search(pattern, Head(tables).full_name)
      THEN <<Head(tables)>> \o Keep(Tail(tables), pattern)
    ELSE Keep(Tail(tables), pattern)

\* lines 32-37: filter_tables; re.compile raises on an invalid pattern
FilterTables(tables, name_regex) ==
    IF ~NameGiven(name_regex) THEN [ok |-> TRUE, tables |-> tables]
    ELSE IF CompileFails(name_regex.text) THEN [ok |-> FALSE, tables |-> <<>>]
    ELSE [ok |-> TRUE, tables |-> Keep(tables, name_regex.text)]

\* lines 11-18: UCTableDeleteResult
UCTableDeleteResult(table, owner_set, deleted, error) ==
    [table |-> table, owner_set |-> owner_set, deleted |-> deleted, error |-> error]

\* lines 122-129: UCOwnerChangeResult
UCOwnerChangeResult(full_name, new_owner, ok, error) ==
    [full_name |-> full_name, new_owner |-> new_owner, ok |-> ok, error |-> error]

\* lines 132-138: UCSchemaDropResult
UCSchemaDropResult(schema_full_name, ok, error) ==
    [schema_full_name |-> schema_full_name, ok |-> ok, error |-> error]

\* the arguments of a call that the function never changes
ucArgs == <<u_op, u_names, u_dry_run, u_schema, u_regex, u_force, u_listed>>

UcRaises(what) == [kind |-> "raised", error |-> what]

\* delete_tables is called by the caller or by delete_schema_with_tables
InDeleteTables == u_op \in {"delete_tables", "delete_schema_with_tables"}

\* a plausible slip: the owner is looked up also for a dry run
LooksUpOwnerAlways(dry) == TRUE

\* lines 52 and 204: adapter.current_username() if not dry_run else None
LooksUpOwner(dry) == ~dry

\* lines 51-52: results = []; owner = adapter.current_username() if not
\* dry_run else None; current_username returns the user name or raises
DtEntry ==
    /\ InDeleteTables
    /\ upc = "dt_entry"
    /\ u_results' = <<>>
    /\ u_i' = 1
    /\ IF ~LooksUpOwner(u_dry_run)
         THEN /\ u_owner' = "None"
              /\ upc' = "dt_for"
              /\ UNCHANGED <<u_calls, u_return>>
         ELSE \E ok \in BOOLEAN :
                /\ u_calls' = Append(u_calls, AdapterCall("current_username", <<>>, "None", ok))
                /\ IF ok
                     THEN /\ u_owner' = Me
                          /\ upc' = "dt_for"
                          /\ u_return' = u_return
                     ELSE /\ upc' = "raised"
                          /\ u_return' = UcRaises("current_username")
                          /\ u_owner' = u_owner
    /\ UNCHANGED <<ucArgs, u_tables>>
    /\ UNCHANGED notCatalog

\* lines 54-59: with dry_run one result per name, no call
DtDryResult ==
    /\ InDeleteTables
    /\ upc = "dt_for"
    /\ u_i <= Len(u_names)
    /\ u_dry_run
    /\ u_results' = Append(u_results, UCTableDeleteResult(u_names[u_i], FALSE, FALSE, "None"))
    /\ u_i' = u_i + 1
    /\ UNCHANGED <<ucArgs, upc, u_owner, u_tables, u_calls, u_return>>
    /\ UNCHANGED notCatalog

\* a plausible slip: a failed table is reported as deleted
FailureUnrecorded(full_name, error) == UCTableDeleteResult(full_name, TRUE, TRUE, "None")

\* lines 70-74: the result appended by the except branch
FailedDelete(full_name, error) == UCTableDeleteResult(full_name, FALSE, FALSE, error)

\* lines 61-64 and 69-74: owner is None raises RuntimeError; otherwise
\* adapter.set_table_owner(full_name, owner=owner) returns or raises
DtSetOwner ==
    /\ InDeleteTables
    /\ upc = "dt_for"
    /\ u_i <= Len(u_names)
    /\ ~u_dry_run
    /\ IF u_owner = "None"
         THEN /\ u_results' = Append(u_results, FailedDelete(u_names[u_i], "owner"))
              /\ u_i' = u_i + 1
              /\ UNCHANGED <<upc, u_calls>>
         ELSE \E ok \in BOOLEAN :
                /\ u_calls' = Append(u_calls,
                                     AdapterCall("set_table_owner", u_names[u_i], u_owner, ok))
                /\ IF ok
                     THEN /\ upc' = "dt_delete"
                          /\ UNCHANGED <<u_results, u_i>>
                     ELSE /\ u_results' = Append(u_results,
                                                 FailedDelete(u_names[u_i], "set_table_owner"))
                          /\ u_i' = u_i + 1
                          /\ upc' = upc
    /\ UNCHANGED <<ucArgs, u_owner, u_tables, u_return>>
    /\ UNCHANGED notCatalog

\* lines 65-74: adapter.delete_table(full_name) returns or raises
DtDelete ==
    /\ InDeleteTables
    /\ upc = "dt_delete"
    /\ \E ok \in BOOLEAN :
         /\ u_calls' = Append(u_calls, AdapterCall("delete_table", u_names[u_i], "None", ok))
         /\ u_results' =
              Append(u_results,
                     IF ok THEN UCTableDeleteResult(u_names[u_i], TRUE, TRUE, "None")
                           ELSE FailedDelete(u_names[u_i], "delete_table"))
    /\ u_i' = u_i + 1
    /\ upc' = "dt_for"
    /\ UNCHANGED <<ucArgs, u_owner, u_tables, u_return>>
    /\ UNCHANGED notCatalog

\* line 76: return results, to the caller or to line 110
DtReturn ==
    /\ InDeleteTables
    /\ upc = "dt_for"
    /\ u_i > Len(u_names)
    /\ IF u_op = "delete_tables"
         THEN /\ upc' = "returned"
              /\ u_return' = [kind |-> "list", value |-> u_results]
         ELSE /\ upc' = "ds_delete_schema"
              /\ u_return' = u_return
    /\ UNCHANGED <<ucArgs, u_i, u_owner, u_tables, u_results, u_calls>>
    /\ UNCHANGED notCatalog

\* set_tables_owner's owner argument
NewOwner == "owner@example.com"

\* lines 150-166: one name of set_tables_owner: the dry-run result, or
\* adapter.set_table_owner(full_name=full_name, owner=owner) and its result
StoStep ==
    /\ u_op = "set_tables_owner"
    /\ upc = "sto_for"
    /\ u_i <= Len(u_names)
    /\ IF u_dry_run
         THEN /\ u_results' = Append(u_results,
                                     UCOwnerChangeResult(u_names[u_i], NewOwner, TRUE, "None"))
              /\ u_calls' = u_calls
         ELSE \E ok \in BOOLEAN :
                /\ u_calls' = Append(u_calls,
                                     AdapterCall("set_table_owner", u_names[u_i], NewOwner, ok))
                /\ u_results' =
                     Append(u_results,
                            UCOwnerChangeResult(u_names[u_i], NewOwner, ok,
                                                IF ok THEN "None" ELSE "set_table_owner"))
    /\ u_i' = u_i + 1
    /\ UNCHANGED <<ucArgs, upc, u_owner, u_tables, u_return>>
    /\ UNCHANGED notCatalog

\* line 167: return results
StoReturn ==
    /\ u_op = "set_tables_owner"
    /\ upc = "sto_for"
    /\ u_i > Len(u_names)
    /\ upc' = "returned"
    /\ u_return' = [kind |-> "list", value |-> u_results]
    /\ UNCHANGED <<ucArgs, u_i, u_owner, u_tables, u_results, u_calls>>
    /\ UNCHANGED notCatalog

\* lines 204-205: me = adapter.current_username() if not dry_run else None
DesEntry ==
    /\ u_op = "drop_empty_schemas"
    /\ upc = "des_entry"
    /\ IF ~LooksUpOwner(u_dry_run)
         THEN /\ u_owner' = "None"
              /\ upc' = "des_for"
              /\ UNCHANGED <<u_calls, u_return>>
         ELSE \E ok \in BOOLEAN :
                /\ u_calls' = Append(u_calls, AdapterCall("current_username", <<>>, "None", ok))
                /\ IF ok
                     THEN /\ u_owner' = Me
                          /\ upc' = "des_for"
                          /\ u_return' = u_return
                     ELSE /\ upc' = "raised"
                          /\ u_return' = UcRaises("current_username")
                          /\ u_owner' = u_owner
    /\ UNCHANGED <<ucArgs, u_i, u_tables, u_results>>
    /\ UNCHANGED notCatalog

\* lines 207-212: with dry_run one result per schema, no call
DesDryResult ==
    /\ u_op = "drop_empty_schemas"
    /\ upc = "des_for"
    /\ u_i <= Len(u_names)
    /\ u_dry_run
    /\ u_results' = Append(u_results, UCSchemaDropResult(u_names[u_i], TRUE, "None"))
    /\ u_i' = u_i + 1
    /\ UNCHANGED <<ucArgs, upc, u_owner, u_tables, u_calls, u_return>>
    /\ UNCHANGED notCatalog

\* lines 213-216 and 221-226: me is None raises RuntimeError; otherwise
\* adapter.set_schema_owner(schema_full_name, owner=me) returns or raises
DesSetOwner ==
    /\ u_op = "drop_empty_schemas"
    /\ upc = "des_for"
    /\ u_i <= Len(u_names)
    /\ ~u_dry_run
    /\ IF u_owner = "None"
         THEN /\ u_results' = Append(u_results, UCSchemaDropResult(u_names[u_i], FALSE, "owner"))
              /\ u_i' = u_i + 1
              /\ UNCHANGED <<upc, u_calls>>
         ELSE \E ok \in BOOLEAN :
                /\ u_calls' = Append(u_calls,
                                     AdapterCall("set_schema_owner", u_names[u_i], u_owner, ok))
                /\ IF ok
                     THEN /\ upc' = "des_delete"
                          /\ UNCHANGED <<u_results, u_i>>
                     ELSE /\ u_results' =
                               Append(u_results,
                                      UCSchemaDropResult(u_names[u_i], FALSE, "set_schema_owner"))
                          /\ u_i' = u_i + 1
                          /\ upc' = upc
    /\ UNCHANGED <<ucArgs, u_owner, u_tables, u_return>>
    /\ UNCHANGED notCatalog

\* lines 217-226: adapter.delete_schema(schema_full_name, force=force)
DesDelete ==
    /\ u_op = "drop_empty_schemas"
    /\ upc = "des_delete"
    /\ \E ok \in BOOLEAN :
         /\ u_calls' = Append(u_calls, AdapterCall("delete_schema", u_names[u_i], u_force, ok))
         /\ u_results' =
              Append(u_results,
                     UCSchemaDropResult(u_names[u_i], ok,
                                        IF ok THEN "None" ELSE "delete_schema"))
    /\ u_i' = u_i + 1
    /\ upc' = "des_for"
    /\ UNCHANGED <<ucArgs, u_owner, u_tables, u_return>>
    /\ UNCHANGED notCatalog

\* line 228: return results
DesReturn ==
    /\ u_op = "drop_empty_schemas"
    /\ upc = "des_for"
    /\ u_i > Len(u_names)
    /\ upc' = "returned"
    /\ u_return' = [kind |-> "list", value |-> u_results]
    /\ UNCHANGED <<ucArgs, u_i, u_owner, u_tables, u_results, u_calls>>
    /\ UNCHANGED notCatalog

\* line 94: owner = adapter.current_username()
DsOwner ==
    /\ u_op = "delete_schema_with_tables"
    /\ upc = "ds_entry"
    /\ \E ok \in BOOLEAN :
         /\ u_calls' = Append(u_calls, AdapterCall("current_username", <<>>, "None", ok))
         /\ IF ok
              THEN /\ u_owner' = Me
                   /\ upc' = "ds_parse"
                   /\ u_return' = u_return
              ELSE /\ upc' = "raised"
                   /\ u_return' = UcRaises("current_username")
                   /\ u_owner' = u_owner
    /\ UNCHANGED <<ucArgs, u_i, u_tables, u_results>>
    /\ UNCHANGED notCatalog

\* line 95: catalog, schema = parse_schema_full_name(schema_full_name)
DsParse ==
    /\ u_op = "delete_schema_with_tables"
    /\ upc = "ds_parse"
    /\ IF ParseSchemaFullName(u_schema).ok
         THEN /\ upc' = "ds_list"
              /\ u_return' = u_return
         ELSE /\ upc' = "raised"
              /\ u_return' = UcRaises("ValueError")
    /\ UNCHANGED <<ucArgs, u_i, u_owner, u_tables, u_results, u_calls>>
    /\ UNCHANGED notCatalog

\* lines 97-99: adapter.list_tables, filter_tables, the tables' full names
DsList ==
    /\ u_op = "delete_schema_with_tables"
    /\ upc = "ds_list"
    /\ LET parsed == ParseSchemaFullName(u_schema)
           kept == FilterTables(u_listed, u_regex)
       IN \E ok \in BOOLEAN :
            /\ u_calls' = Append(u_calls,
                                 AdapterCall("list_tables", parsed.catalog, parsed.schema, ok))
            /\ IF ~ok
                 THEN /\ upc' = "raised"
                      /\ u_return' = UcRaises("list_tables")
                      /\ u_tables' = u_tables
               ELSE IF ~kept.ok
                 THEN /\ upc' = "raised"
                      /\ u_return' = UcRaises("re.error")
                      /\ u_tables' = u_tables
               ELSE /\ upc' = "ds_dry_run"
                    /\ u_tables' = [k \in DOMAIN kept.tables |-> kept.tables[k].full_name]
                    /\ u_return' = u_return
    /\ UNCHANGED <<ucArgs, u_i, u_owner, u_results>>
    /\ UNCHANGED notCatalog

\* lines 101-107: with dry_run the plan is returned, schema_deleted False
DsDryReturn ==
    /\ u_op = "delete_schema_with_tables"
    /\ upc = "ds_dry_run"
    /\ u_dry_run
    /\ upc' = "returned"
    /\ u_return' = [kind |-> "dict", schema |-> u_schema, owner |-> u_owner,
                    tables |-> u_tables, has_table_results |-> FALSE,
                    table_results |-> <<>>, schema_deleted |-> FALSE]
    /\ UNCHANGED <<ucArgs, u_i, u_owner, u_tables, u_results, u_calls>>
    /\ UNCHANGED notCatalog

\* line 109: adapter.set_schema_owner(schema_full_name, owner=owner)
DsSetSchemaOwner ==
    /\ u_op = "delete_schema_with_tables"
    /\ upc = "ds_dry_run"
    /\ ~u_dry_run
    /\ \E ok \in BOOLEAN :
         /\ u_calls' = Append(u_calls, AdapterCall("set_schema_owner", u_schema, u_owner, ok))
         /\ IF ok
              THEN /\ upc' = "ds_delete_tables"
                   /\ u_return' = u_return
              ELSE /\ upc' = "raised"
                   /\ u_return' = UcRaises("set_schema_owner")
    /\ UNCHANGED <<ucArgs, u_i, u_owner, u_tables, u_results>>
    /\ UNCHANGED notCatalog

\* line 110: the call delete_tables(adapter, table_names, dry_run=False)
DsDeleteTables ==
    /\ u_op = "delete_schema_with_tables"
    /\ upc = "ds_delete_tables"
    /\ u_names' = u_tables
    /\ upc' = "dt_entry"
    /\ UNCHANGED <<u_op, u_dry_run, u_schema, u_regex, u_force, u_listed>>
    /\ UNCHANGED <<u_i, u_owner, u_tables, u_results, u_calls, u_return>>
    /\ UNCHANGED notCatalog

\* lines 111-119: adapter.delete_schema(schema_full_name, force=...), then
\* the result with table_results and schema_deleted True
DsDeleteSchema ==
    /\ u_op = "delete_schema_with_tables"
    /\ upc = "ds_delete_schema"
    /\ \E ok \in BOOLEAN :
         /\ u_calls' = Append(u_calls, AdapterCall("delete_schema", u_schema, u_force, ok))
         /\ IF ok
              THEN /\ upc' = "returned"
                   /\ u_return' = [kind |-> "dict", schema |-> u_schema, owner |-> u_owner,
                                   tables |-> u_tables, has_table_results |-> TRUE,
                                   table_results |-> u_results, schema_deleted |-> TRUE]
              ELSE /\ upc' = "raised"
                   /\ u_return' = UcRaises("delete_schema")
    /\ UNCHANGED <<ucArgs, u_i, u_owner, u_tables, u_results>>
    /\ UNCHANGED notCatalog

\* the call: one of the four functions with its arguments
CatalogInit ==
    /\ u_op \in {"delete_tables", "set_tables_owner", "drop_empty_schemas",
                 "delete_schema_with_tables"}
    /\ u_dry_run \in BOOLEAN
    /\ IF u_op = "delete_schema_with_tables"
         THEN /\ u_names = <<>>
              /\ u_schema \in SchemaArgs
              /\ u_regex \in RegexArgs
              /\ u_force \in BOOLEAN
              /\ u_listed \in Listings
              /\ upc = "ds_entry"
         ELSE /\ u_names \in NameLists
              /\ u_schema = <<>>
              /\ u_regex = NoName
              /\ u_force \in (IF u_op = "drop_empty_schemas" THEN BOOLEAN ELSE {FALSE})
              /\ u_listed = <<>>
              /\ upc = CASE u_op = "delete_tables" -> "dt_entry"
                         [] u_op = "set_tables_owner" -> "sto_for"
                         [] u_op = "drop_empty_schemas" -> "des_entry"
    /\ u_i = 1
    /\ u_owner = "None"
    /\ u_tables = <<>>
    /\ u_results = <<>>
    /\ u_calls = <<>>
    /\ u_return = NoReturn
    /\ MonitorIdle
    /\ DispatchIdle
    /\ CacheIdle
    /\ RaceIdle
    /\ SelectIdle
    /\ CliIdle
    /\ WorkspaceIdle
    /\ SchemaDeleteIdle
    /\ PathIdle

CatalogNext ==
    \/ DtEntry
    \/ DtDryResult
    \/ DtSetOwner
    \/ DtDelete
    \/ DtReturn
    \/ StoStep
    \/ StoReturn
    \/ DesEntry
    \/ DesDryResult
    \/ DesSetOwner
    \/ DesDelete
    \/ DesReturn
    \/ DsOwner
    \/ DsParse
    \/ DsList
    \/ DsDryReturn
    \/ DsSetSchemaOwner
    \/ DsDeleteTables
    \/ DsDeleteSchema

----
(* The run monitor's specification *)

MonitorInit ==
    /\ (ProgressInit \/ WaitInit)
    /\ terminalSeen = [id \in RunIds |-> NoStatus]
    /\ repolled = {}
    /\ completion = <<>>
    /\ tickPolled = <<>>
    /\ DispatchIdle
    /\ CacheIdle
    /\ RaceIdle
    /\ SelectIdle
    /\ CliIdle
    /\ CatalogIdle
    /\ WorkspaceIdle
    /\ SchemaDeleteIdle
    /\ PathIdle

MonitorNext ==
    \/ ProgressWhile
    \/ ProgressSkip
    \/ ProgressPoll
    \/ ProgressPollRaises
    \/ ProgressSleep
    \/ ProgressWake
    \/ WaitPoll
    \/ WaitPollRaises
    \/ WaitSleep

----------------------------------------------------------------------------
(* cli/commands/unitycatalog.py: the schema-delete command *)

\* lines 43 and 68: typer.Exit(2), the exit code of an input error
ExitInputError == 2

\* line 44: f"{catalog}.{schema_name}"
SchemaFullName(parsed) == parsed.catalog \o <<".">> \o parsed.schema

\* lines 60-68: _compile_regex_or_exit exits on a pattern re.compile rejects
RegexRejected(name_regex) ==
    name_regex.given /\ name_regex.text # <<>> /\ CompileFails(name_regex.text)

\* the command's variables that the jobs commands use and this one does not
sdUnused == <<parallel, confirm, watch, selected, results>>

sdRest == <<monVars, dispVars, cacheVars, raceVars, selVars, remote, pathVars>>

\* the command line and the schema as the command finds it
SchemaDeleteInit ==
    /\ command = "schema-delete"
    /\ parallel = 0
    /\ confirm = FALSE
    /\ watch = FALSE
    /\ selected = <<>>
    /\ results = <<>>
    /\ out = <<>>
    /\ exit_code = NoExit
    /\ dry_run \in BOOLEAN
    /\ yes \in BOOLEAN
    /\ plan = <<>>
    /\ kpc = "validate"
    /\ u_schema \in SchemaArgs
    /\ u_regex \in RegexArgs
    /\ u_force \in BOOLEAN
    /\ u_listed \in Listings
    /\ u_op = "none"
    /\ u_names = <<>>
    /\ u_dry_run = FALSE
    /\ upc = "off"
    /\ u_i = 1
    /\ u_owner = "None"
    /\ u_tables = <<>>
    /\ u_results = <<>>
    /\ u_calls = <<>>
    /\ u_return = NoReturn
    /\ MonitorIdle
    /\ DispatchIdle
    /\ CacheIdle
    /\ RaceIdle
    /\ SelectIdle
    /\ WorkspaceIdle
    /\ PathIdle

\* lines 380-381: _parse_schema_or_exit and _compile_regex_or_exit leave
\* with code 2 on a malformed schema name or pattern
SdRejects ==
    /\ kpc = "validate"
    /\ ~ParseSchemaFullName(u_schema).ok \/ RegexRejected(u_regex)
    /\ out' = Append(out, "error")
    /\ exit_code' = ExitInputError
    /\ kpc' = "exited"
    /\ UNCHANGED <<command, dry_run, sdUnused, yes, plan, answer>>
    /\ UNCHANGED <<ucVars, sdRest>>

\* lines 383-391: the call delete_schema_with_tables(..., dry_run=True)
SdBuildPlan ==
    /\ kpc = "validate"
    /\ ParseSchemaFullName(u_schema).ok
    /\ ~RegexRejected(u_regex)
    /\ u_op' = "delete_schema_with_tables"
    /\ u_schema' = SchemaFullName(ParseSchemaFullName(u_schema))
    /\ u_dry_run' = TRUE
    /\ upc' = "ds_entry"
    /\ kpc' = "planning"
    /\ UNCHANGED <<u_names, u_regex, u_force, u_listed, u_i, u_owner, u_tables, u_results,
                   u_calls, u_return>>
    /\ UNCHANGED <<command, dry_run, sdUnused, out, exit_code, yes, plan, answer>>
    /\ UNCHANGED sdRest

\* the exit code for an exception of delete_schema_with_tables: ValueError
\* gives 2 (lines 392-394, 449-451), NotFound and PermissionDenied give 1
\* (395-400, 438-448), and what is not caught ends the process with 1
ExitCodeFor(raised) == IF raised.error \in {"current_username", "ValueError"}
                         THEN ExitInputError ELSE ExitError

\* lines 392-400: building the plan raised
SdPlanRaises ==
    /\ kpc = "planning"
    /\ upc = "raised"
    /\ out' = Append(out, "error")
    /\ exit_code' = ExitCodeFor(u_return)
    /\ kpc' = "exited"
    /\ UNCHANGED <<command, dry_run, sdUnused, yes, plan, answer>>
    /\ UNCHANGED <<ucVars, sdRest>>

\* lines 402-410: the plan is printed: schema, owner, the tables to delete
SdShowPlan ==
    /\ kpc = "planning"
    /\ upc = "returned"
    /\ plan' = u_return.tables
    /\ out' = Append(out, "Deletion plan")
    /\ kpc' = "shown"
    /\ UNCHANGED <<command, dry_run, sdUnused, exit_code, yes, answer>>
    /\ UNCHANGED <<ucVars, sdRest>>

\* lines 412-414: with --dry-run nothing more happens
SdDryRun ==
    /\ kpc = "shown"
    /\ dry_run
    /\ out' = Append(out, "DRY RUN")
    /\ exit_code' = ExitOk
    /\ kpc' = "exited"
    /\ UNCHANGED <<command, dry_run, sdUnused, yes, plan, answer>>
    /\ UNCHANGED <<ucVars, sdRest>>

\* lines 416-419: without --yes the user is asked, and declines
SdCancelled ==
    /\ kpc = "shown"
    /\ ~dry_run
    /\ ~yes
    /\ answer' = "no"
    /\ out' = Append(out, "Cancelled")
    /\ exit_code' = ExitOk
    /\ kpc' = "exited"
    /\ UNCHANGED <<command, dry_run, sdUnused, yes, plan>>
    /\ UNCHANGED <<ucVars, sdRest>>

\* another actor creates a table in the schema while the plan is on the
\* screen: list_tables returns a longer listing from now on
SchemaGrows ==
    /\ kpc = "shown"
    /\ ~dry_run
    /\ \E later \in Listings :
         /\ Range(u_listed) \subseteq Range(later)
         /\ Range(later) # Range(u_listed)
         /\ u_listed' = later
    /\ UNCHANGED <<u_op, u_names, u_dry_run, u_schema, u_regex, u_force, upc, u_i, u_owner,
                   u_tables, u_results, u_calls, u_return>>
    /\ UNCHANGED <<cliVars, sdVars, answer, sdRest>>

\* lines 416-429: --yes or the user agrees; the call
\* delete_schema_with_tables(..., dry_run=False), with the arguments of the
\* first call and not with the plan
SdExecute ==
    /\ kpc = "shown"
    /\ ~dry_run
    /\ answer' = IF yes THEN answer ELSE "yes"
    /\ u_dry_run' = FALSE
    /\ upc' = "ds_entry"
    /\ u_i' = 1
    /\ u_owner' = "None"
    /\ u_tables' = <<>>
    /\ u_results' = <<>>
    /\ u_return' = NoReturn
    /\ kpc' = "executing"
    /\ UNCHANGED <<u_op, u_names, u_schema, u_regex, u_force, u_listed, u_calls>>
    /\ UNCHANGED <<command, dry_run, sdUnused, out, exit_code, yes, plan>>
    /\ UNCHANGED sdRest

\* lines 438-451: the second call raised
SdExecRaises ==
    /\ kpc = "executing"
    /\ upc = "raised"
    /\ out' = Append(out, "error")
    /\ exit_code' = ExitCodeFor(u_return)
    /\ kpc' = "exited"
    /\ UNCHANGED <<command, dry_run, sdUnused, yes, plan, answer>>
    /\ UNCHANGED <<ucVars, sdRest>>

\* lines 453-461: the table results are printed; a failed table gives exit
\* code 1, otherwise the command returns
SdReport ==
    /\ kpc = "executing"
    /\ upc = "returned"
    /\ out' = Append(out, "Table deletion results")
    /\ exit_code' = IF \E k \in DOMAIN u_return.table_results :
                          u_return.table_results[k].error # "None"
                      THEN ExitError ELSE ExitOk
    /\ kpc' = "exited"
    /\ UNCHANGED <<command, dry_run, sdUnused, yes, plan, answer>>
    /\ UNCHANGED <<ucVars, sdRest>>

SchemaDeleteNext ==
    \/ SdRejects
    \/ SdBuildPlan
    \/ SdPlanRaises
    \/ SdShowPlan
    \/ SdDryRun
    \/ SdCancelled
    \/ SchemaGrows
    \/ SdExecute
    \/ SdExecRaises
    \/ SdReport
    \/ DsOwner
    \/ DsParse
    \/ DsList
    \/ DsDryReturn
    \/ DsSetSchemaOwner
    \/ DsDeleteTables
    \/ DsDeleteSchema
    \/ DtEntry
    \/ DtSetOwner
    \/ DtDelete
    \/ DtReturn

----------------------------------------------------------------------------

(* core/adapters/databricksjobs.py: _build_cache_path, and two adapters   *)
(* sharing cache directories                                               *)

\* the characters of the class [A-Za-z0-9_.-] that occur in the keys used
SafeChars == {"a", "b", "d", "e", "f", "k", "l", "n", "o", "t", "u", "w", "_", "."}

\* line 25: profile or "default"
ProfileOrDefault(profile) ==
    IF profile = NoName \/ profile.text = <<>>
      THEN <<"d", "e", "f", "a", "u", "l", "t">>
      ELSE profile.text

\* line 38: getattr(getattr(client, "config", None), "host", None) or "unknown"
HostOrUnknown(host) ==
    IF host = NoName \/ host.text = <<>>
      THEN <<"u", "n", "k", "n", "o", "w", "n">>
      ELSE host.text

\* line 39: key = f"{self.profile}@{host}"
CacheKey(ident) == ProfileOrDefault(ident.profile) \o <<"@">> \o HostOrUnknown(ident.host)

\* a plausible variant: re.sub(r"[^A-Za-z0-9_.-]", "_", key), one "_" for each
\* character
RECURSIVE SubEachChar(_)
SubEachChar(key) ==
    IF key = <<>> THEN <<>>
    ELSE <<IF Head(key) \in SafeChars THEN Head(key) ELSE "_">> \o SubEachChar(Tail(key))

\* line 40: re.sub(r"[^A-Za-z0-9_.-]+", "_", key): every maximal run of
\* characters outside the class becomes one "_"
RECURSIVE SubRuns(_)
SubRuns(key) ==
    IF key = <<>> THEN <<>>
    ELSE IF Head(key) \in SafeChars THEN <<Head(key)>> \o SubRuns(Tail(key))
    ELSE IF Len(key) > 1 /\ key[2] \notin SafeChars THEN SubRuns(Tail(key))
    ELSE <<"_">> \o SubRuns(Tail(key))

SafeKey(ident) == SubRuns(CacheKey(ident))

\* lines 31-41: cache_dir / f"jobs_{safe_key}.json"; cache_dir follows from
\* DBOPS_CACHE_DIR, XDG_CACHE_HOME or the home directory
BuildCachePath(ident) == [dir |-> ident.cache_dir, name |-> SafeKey(ident)]

\* --profile: not given, "", "a", "a:", "a_"
Profiles ==
    {NoName} \cup {[given |-> TRUE, text |-> t] : t \in {<<>>, <<"a">>, <<"a", ":">>, <<"a", "_">>}}

\* client.config.host: None, "b", ":b", "//b", "_b"
Hosts ==
    {NoName} \cup {[given |-> TRUE, text |-> t] :
                      t \in {<<"b">>, <<":", "b">>, <<"/", "/", "b">>, <<"_", "b">>}}

Identities == [profile : Profiles, host : Hosts, cache_dir : {"c1", "c2"}]

Adapters == {1, 2}

NothingRead == [kind |-> "not_called", writer |-> 0]

\* two adapters constructed for two identities; no cache file yet
CachePathInit ==
    /\ p_ident \in [Adapters -> Identities]
    /\ p_disk = {}
    /\ p_read = [i \in Adapters |-> NothingRead]
    /\ MonitorIdle
    /\ DispatchIdle
    /\ CacheIdle
    /\ RaceIdle
    /\ SelectIdle
    /\ CliIdle
    /\ CatalogIdle
    /\ WorkspaceIdle
    /\ SchemaDeleteIdle

FilesAt(path) == {f \in p_disk : f.path = path}

\* lines 105-127: find_all_jobs of adapter i; the file at its own path is
\* read and, when fresh, returned; otherwise the jobs are listed and written
\* to that path
PathFindAllJobs(i) ==
    LET path == BuildCachePath(p_ident[i]) IN
    /\ \E fresh \in BOOLEAN :
         IF FilesAt(path) # {} /\ fresh
           THEN /\ p_read' = [p_read EXCEPT ![i] =
                                 [kind |-> "entry",
                                  writer |-> (CHOOSE f \in FilesAt(path) : TRUE).writer]]
                /\ p_disk' = p_disk
           ELSE /\ p_read' = [p_read EXCEPT ![i] = [kind |-> "miss", writer |-> 0]]
                /\ p_disk' = (p_disk \ FilesAt(path)) \cup {[path |-> path, writer |-> i]}
    /\ UNCHANGED p_ident
    /\ UNCHANGED <<monVars, dispVars, cacheVars, raceVars, selVars, cliVars, ucVars, wsVars,
                   sdVars>>

FirstFindAllJobs == PathFindAllJobs(1)

SecondFindAllJobs == PathFindAllJobs(2)

CachePathNext ==
    \/ FirstFindAllJobs
    \/ SecondFindAllJobs

----------------------------------------------------------------------------

(* core/adapters/databricksjobs.py: get_run_status, and the monitor run   *)
(* against it                                                              *)

\* run.state of the Run that client.jobs.get_run returns: a RunState with a
\* life_cycle_state and a result_state, either of which may be None
RunState(life, res) == [has_state |-> TRUE, life_cycle_state |-> life, result_state |-> res]

\* the states a run is seen in: no state object, waiting, running, ended
\* with one of four result states, and two states without a life-cycle state
RemoteRunStates ==
    {NoRunState,
     RunState("PENDING", "None"), RunState("RUNNING", "None"),
     RunState("TERMINATED", "SUCCESS"), RunState("TERMINATED", "FAILED"),
     RunState("TERMINATED", "CANCELED"), RunState("TERMINATED", "TIMEDOUT"),
     RunState("None", "TIMEDOUT"), RunState("None", "None")}

\* a plausible repair: every result state that is not SUCCESS or CANCELED
\* counts as FAILED
GetRunStatusEndedIsFailed(run) ==
    IF ~run.has_state THEN "UNKNOWN"
    ELSE IF run.result_state = "SUCCESS" THEN "SUCCESS"
    ELSE IF run.result_state = "CANCELED" THEN "CANCELED"
    ELSE IF run.result_state # "None" THEN "FAILED"
    ELSE IF run.life_cycle_state # "None" THEN "RUNNING"
    ELSE "UNKNOWN"

\* lines 133-151: DatabricksJobsAdapter.get_run_status
GetRunStatus(run) ==
    IF ~run.has_state THEN "UNKNOWN"
    ELSE IF run.result_state = "SUCCESS" THEN "SUCCESS"
    ELSE IF run.result_state = "FAILED" THEN "FAILED"
    ELSE IF run.result_state = "CANCELED" THEN "CANCELED"
    ELSE IF run.life_cycle_state # "None" THEN "RUNNING"
    ELSE "UNKNOWN"

\* the remote run has ended: the service has given it a result state
Ended(run) == run.has_state /\ run.result_state # "None"

\* the service moves a run that has not ended to another state
RemoteAdvance ==
    /\ \E id \in RunIds, next \in RemoteRunStates :
         /\ id = run_id \/ \E k \in DOMAIN runs : runs[k].run_id = id
         /\ ~Ended(remote[id])
         /\ next # remote[id]
         /\ remote' = [remote EXCEPT ![id] = next]
    /\ pc \notin {"done", "raised"}
    /\ UNCHANGED <<monVars, dispVars, cacheVars, raceVars, selVars, cliVars, ucVars, answer,
                   sdVars, pathVars>>

\* runs.py line 86 with the Databricks adapter
AdapterWaitPoll ==
    /\ WaitPoll
    /\ status' = GetRunStatus(remote[run_id])

\* progress.py line 145 with the Databricks adapter
AdapterProgressPoll ==
    /\ ProgressPoll
    /\ statuses'[runs[idx].run_id] = GetRunStatus(remote[runs[idx].run_id])

JobRunOf(id) == [run_id |-> id, job_id |-> 1]

\* the lists of runs watched
WatchedLists == {<<>>, <<JobRunOf(1)>>, <<JobRunOf(1), JobRunOf(2)>>, <<JobRunOf(2), JobRunOf(1)>>}

AdapterMonitorInit ==
    /\ (ProgressInit \/ WaitInit)
    /\ call = "wait_for_runs_with_progress" => runs \in WatchedLists
    /\ call = "wait_for_run" => run_id \in {1, 2}
    /\ terminalSeen = [id \in RunIds |-> NoStatus]
    /\ repolled = {}
    /\ completion = <<>>
    /\ tickPolled = <<>>
    /\ remote \in [RunIds -> RemoteRunStates]
    /\ \A id \in RunIds :
         (id # run_id /\ \A k \in DOMAIN runs : runs[k].run_id # id) => remote[id] = NoRunState
    /\ answer = "not_asked"
    /\ SchemaDeleteIdle
    /\ PathIdle
    /\ DispatchIdle
    /\ CacheIdle
    /\ RaceIdle
    /\ SelectIdle
    /\ CliIdle
    /\ CatalogIdle

AdapterMonitorNext ==
    \/ RemoteAdvance
    \/ ProgressWhile
    \/ ProgressSkip
    \/ AdapterProgressPoll
    \/ ProgressPollRaises
    \/ ProgressSleep
    \/ ProgressWake
    \/ AdapterWaitPoll
    \/ WaitPollRaises
    \/ WaitSleep

----------------------------------------------------------------------------
(* The specifications *)

SpecMonitor == MonitorInit /\ [][MonitorNext]_vars

\* a query of run id that reports a terminal status
TerminalReport(id) ==
    /\ ProgressPoll
    /\ runs[idx].run_id = id
    /\ statuses'[id] \in TerminalStatuses

\* the statements of wait_for_runs_with_progress, a failing query apart
ProgressSteps ==
    \/ ProgressWhile
    \/ ProgressSkip
    \/ ProgressPoll
    \/ ProgressSleep
    \/ ProgressWake

\* the position of the monitor in its loops: every statement of
\* wait_for_runs_with_progress moves it
progressAt == <<pc, idx>>

\* a call of wait_for_runs_with_progress on any input list
ProgressCallInit ==
    /\ MonitorInit
    /\ call = "wait_for_runs_with_progress"

\* every statement of wait_for_runs_with_progress
ProgressNext ==
    \/ ProgressSteps
    \/ ProgressPollRaises

\* The monitor under the scheduling of a single thread that keeps running
\* (every statement that can execute does, every sleep ends) and an adapter
\* under which every run that keeps being queried is eventually reported in
\* a terminal status.
SpecMonitorLive ==
    /\ ProgressCallInit
    /\ [][ProgressNext]_vars
    /\ WF_progressAt(ProgressSteps)
    /\ \A id \in RunIds : SF_progressAt(TerminalReport(id))

\* the monitor polling through DatabricksJobsAdapter.get_run_status
SpecAdapterMonitor == AdapterMonitorInit /\ [][AdapterMonitorNext]_vars

SpecDispatch == DispatchInit /\ [][DispatchNext]_vars

SpecCache == CacheInit /\ [][CacheNext]_vars

SpecCacheRace == RaceInit /\ [][RaceNext]_vars

SpecSelect == SelectInit /\ [][SelectNext]_vars

SpecJobsCli == CliInit /\ [][CliNext]_vars

SpecCatalog == CatalogInit /\ [][CatalogNext]_vars

\* two adapters whose cache paths follow from their identities
SpecCachePath == CachePathInit /\ [][CachePathNext]_vars

\* the schema-delete command, with another actor creating tables
SpecSchemaDelete == SchemaDeleteInit /\ [][SchemaDeleteNext]_vars

----------------------------------------------------------------------------
(* Claims about the run monitor, checked under SpecMonitor *)

InProgressCall == call = "wait_for_runs_with_progress"

\* C1: wait_for_runs_with_progress returns only after every input run was
\* observed in a terminal status, and returns one (run, status) pair per input
\* run, in input order, the status being the terminal status observed.
C1_ReturnsAllTerminalInInputOrder ==
    (InProgressCall /\ pc = "done") =>
        /\ Len(result) = Len(runs)
        /\ \A k \in DOMAIN runs :
             /\ terminalSeen[runs[k].run_id] \in TerminalStatuses
             /\ result[k] = <<runs[k], terminalSeen[runs[k].run_id]>>

\* two runs that finished in the reverse of the input order, with different
\* statuses, and the call has returned
C1_Witness ==
    /\ InProgressCall
    /\ pc = "done"
    /\ Len(runs) = 2
    /\ completion = <<runs[2].run_id, runs[1].run_id>>
    /\ runs[1].run_id # runs[2].run_id
    /\ result[1][2] = "FAILED"
    /\ result[2][2] = "SUCCESS"

FailedFinished == {id \in finished : statuses[id] \in FailureStatuses}

C2_TallyInv == InProgressCall => failures = Cardinality(FailedFinished)

C2_TallyStep ==
    InProgressCall =>
        /\ failures' \in {failures, failures + 1}
        /\ (failures' = failures + 1) <=>
              \E id \in DOMAIN statuses :
                 /\ id \notin finished
                 /\ id \in finished'
                 /\ statuses'[id] \in FailureStatuses

\* C2: the failures tally is incremented exactly once per run, in the step
\* where the run is first observed FAILED or CANCELED; it always equals the
\* number of finished runs recorded FAILED or CANCELED; SUCCESS never counts.
C2_FailuresCountedOnce == [](C2_TallyInv) /\ [][C2_TallyStep]_vars

\* a returned call with one failed run counted and one successful run not counted
C2_Witness ==
    /\ InProgressCall
    /\ pc = "done"
    /\ failures = 1
    /\ \E a, b \in finished : statuses[a] = "SUCCESS" /\ statuses[b] = "CANCELED"

C3_NoRepollInv ==
    /\ repolled = {}
    /\ InProgressCall =>
         \A id \in DOMAIN statuses :
            terminalSeen[id] # NoStatus => statuses[id] = terminalSeen[id]

C3_TerminalStable ==
    InProgressCall =>
        \A id \in DOMAIN statuses :
           statuses[id] \in TerminalStatuses => statuses'[id] = statuses[id]

\* C3: once get_run_status returned a terminal status for a run, the run is
\* never queried again and its recorded status never changes.
C3_TerminalNeverRepolled == [](C3_NoRepollInv) /\ [][C3_TerminalStable]_vars

\* a later sweep has ended which queried an unfinished run and left the
\* finished one alone
C3_Witness ==
    /\ InProgressCall
    /\ pc = "sleep"
    /\ tickPolled # <<>>
    /\ \E id \in finished : id \notin Range(tickPolled)

\* a step of wait_for_runs_with_progress that queried runs[idx] and got a
\* non-terminal status
C4_NonTerminalPoll ==
    /\ InProgressCall
    /\ pc = "for"
    /\ Len(tickPolled') = Len(tickPolled) + 1
    /\ pc' = "for"
    /\ statuses'[runs[idx].run_id] \notin TerminalStatuses

C4_Step ==
    /\ C4_NonTerminalPoll =>
          /\ finished' = finished
          /\ failures' = failures
          /\ runs[idx].run_id \notin finished'
    /\ (call = "wait_for_run" /\ pc = "poll" /\ pc' # "raised"
          /\ status' \notin TerminalStatuses) => pc' = "sleep"
    /\ (call = "wait_for_run" /\ pc = "sleep") => pc' = "poll"

C4_Inv ==
    /\ \A id \in RunIds : terminalSeen[id] = NoStatus => id \notin finished
    /\ failures <= Cardinality({id \in RunIds : terminalSeen[id] \in FailureStatuses})
    /\ (call = "wait_for_run" /\ pc = "done") => terminalSeen[run_id] # NoStatus
    /\ (InProgressCall /\ pc = "done") =>
          \A k \in DOMAIN runs : terminalSeen[runs[k].run_id] # NoStatus
    \* a sweep queries every run that is still unfinished when it ends
    /\ (InProgressCall /\ pc = "sleep") =>
          \A k \in DOMAIN runs :
             runs[k].run_id \notin finished => runs[k].run_id \in Range(tickPolled)

\* C4: a poll returning PENDING, RUNNING or UNKNOWN never marks the run
\* finished and never increments failures, in wait_for_run and in
\* wait_for_runs_with_progress; the run is polled again on the next tick.
C4_NonTerminalKeepsPolling == [](C4_Inv) /\ [][C4_Step]_vars

\* a sweep in which one run was reported UNKNOWN and another RUNNING: neither
\* is finished and nothing was counted
C4_Witness ==
    /\ InProgressCall
    /\ pc = "sleep"
    /\ failures = 0
    /\ finished = {}
    /\ \E a, b \in Range(tickPolled) : statuses[a] = "UNKNOWN" /\ statuses[b] = "RUNNING"

\* how often x occurs in a sequence
Occurrences(seq, x) == Cardinality({k \in DOMAIN seq : seq[k] = x})

\* a is b with some elements left out
RECURSIVE IsSubseq(_, _)
IsSubseq(a, b) ==
    IF a = <<>> THEN TRUE
    ELSE IF b = <<>> THEN FALSE
    ELSE IF Head(a) = Head(b) THEN IsSubseq(Tail(a), Tail(b))
    ELSE IsSubseq(a, Tail(b))

\* the entries of the input list the current tick has gone past
VisitedIds ==
    [k \in 1..(IF pc = "raised" THEN idx ELSE idx - 1) |-> runs[k].run_id]

\* the runs that were already finished when the current tick began: a run
\* the tick queried was unfinished then
FinishedBeforeTick == finished \ Range(tickPolled)

DistinctRunIds == \A j, k \in DOMAIN runs : runs[j].run_id = runs[k].run_id => j = k

\* within a tick: the queries so far are queries of entries gone past, in
\* input-list order; every entry gone past whose run is still unfinished was
\* queried, once per entry; a run finished before the tick was not queried;
\* with distinct run ids no run is queried twice, and a tick that has ended
\* queried exactly the runs unfinished at its start
C29_TickInv ==
    (InProgressCall /\ pc \in {"for", "sleep", "raised"}) =>
        /\ IsSubseq(tickPolled, VisitedIds)
        /\ \A id \in Range(VisitedIds) \ finished :
             Occurrences(tickPolled, id) = Occurrences(VisitedIds, id)
        /\ \A id \in Range(VisitedIds) \cap finished :
             Occurrences(tickPolled, id) <= Occurrences(VisitedIds, id)
        /\ \A id \in FinishedBeforeTick : terminalSeen[id] # NoStatus /\ id \notin repolled
        /\ DistinctRunIds =>
             /\ \A id \in Range(tickPolled) : Occurrences(tickPolled, id) = 1
             /\ pc = "sleep" =>
                  tickPolled = SelectSeq(VisitedIds, LAMBDA id : id \notin FinishedBeforeTick)
        /\ pc = "sleep" => Len(VisitedIds) = Len(runs)

\* ticks do not overlap and one sleep separates them: a tick ends only when
\* it has gone past the whole list (or a query raised), it is followed by
\* the sleep, the loop test comes only after a sleep, and a new tick starts
\* from the loop test with nothing queried yet
C29_TickStep ==
    InProgressCall =>
        /\ (pc = "for" /\ pc' # "for") =>
             \/ pc' = "sleep" /\ idx > Len(runs)
             \/ pc' = "raised"
        /\ (pc = "for" /\ pc' = "for") => idx' = idx + 1 /\ idx <= Len(runs)
        /\ pc = "sleep" => pc' \in {"sleep", "while"}
        /\ (pc' = "while" /\ pc # "while") => pc = "sleep"
        /\ (pc' = "for" /\ pc # "for") => pc = "while" /\ idx' = 1 /\ tickPolled' = <<>>
        /\ tickPolled' # tickPolled =>
             \/ tickPolled' = <<>> /\ pc = "while"
             \/ /\ pc = "for"
                /\ tickPolled' = Append(tickPolled, runs[idx].run_id)
                /\ runs[idx].run_id \notin finished

\* C29: polling in wait_for_runs_with_progress proceeds in non-overlapping
\* ticks; in each tick every still-unfinished run is queried exactly once, in
\* input-list order, finished runs are skipped, and exactly one sleep follows
\* each tick before the next tick starts.
C29_NonOverlappingTicks == [](C29_TickInv) /\ [][C29_TickStep]_vars

\* a later tick has ended: the first run, finished in an earlier tick, was
\* skipped and the second run was queried once and is still running
C29_Witness ==
    /\ InProgressCall
    /\ pc = "sleep"
    /\ DistinctRunIds
    /\ Len(runs) = 2
    /\ FinishedBeforeTick = {runs[1].run_id}
    /\ tickPolled = <<runs[2].run_id>>
    /\ statuses[runs[2].run_id] = "RUNNING"

----------------------------------------------------------------------------
(* Claims about wait_for_run, checked under SpecMonitor *)

InWaitCall == call = "wait_for_run"

\* wait_for_run has returned: the value is the status of the last query, that
\* status is the first terminal one reported for the run, no query followed
\* a terminal report and the last thing done was the query, not a sleep; as
\* long as it has not returned no terminal status has been reported
C31_WaitInv ==
    InWaitCall =>
        /\ pc = "done" =>
             /\ result = status
             /\ result \in TerminalStatuses
             /\ result = terminalSeen[run_id]
             /\ tickPolled = <<run_id>>
        /\ run_id \notin repolled
        /\ pc # "done" =>
             /\ result = <<>>
             /\ terminalSeen[run_id] = NoStatus
             /\ status \in {NoStatus} \cup (RunStatus \ TerminalStatuses)
        /\ pc = "sleep" => ENABLED WaitSleep
        /\ pc = "poll" => ENABLED WaitPoll

\* queries and sleeps alternate: a query is followed by the return, by the
\* error of the query or by one sleep; a sleep is followed by a query; a
\* query is preceded by a sleep; the return changes nothing afterwards
C31_WaitStep ==
    InWaitCall =>
        /\ (pc = "poll" /\ pc' # "poll") =>
             \/ pc' = "done" /\ status' \in TerminalStatuses
             \/ pc' = "sleep" /\ status' \notin TerminalStatuses
             \/ pc' = "raised"
        /\ (pc = "sleep" /\ pc' # "sleep") => pc' = "poll" /\ status' = status
        /\ (pc' = "poll" /\ pc # "poll") => pc = "sleep"
        /\ pc \in {"done", "raised"} => UNCHANGED monVars

\* C31: wait_for_run returns the first terminal status reported for the run,
\* with no sleep or query after it; between two consecutive queries it sleeps
\* exactly once; it never returns while only non-terminal statuses are
\* reported, and nothing but a terminal report (or an error of the query)
\* ends the loop.
C31_ReturnsFirstTerminal == [](C31_WaitInv) /\ [][C31_WaitStep]_vars

\* wait_for_run returned CANCELED
C31_Witness ==
    /\ InWaitCall
    /\ pc = "done"
    /\ result = "CANCELED"
    /\ terminalSeen[run_id] = "CANCELED"

----------------------------------------------------------------------------
(* Claims about errors of the status query, checked under SpecMonitor *)

\* a step in which runs[idx] was queried and no status came back
C32_QueryFailed ==
    /\ InProgressCall
    /\ pc = "for"
    /\ Len(tickPolled') = Len(tickPolled) + 1
    /\ idx' = idx

\* the failed query ends the call and changes nothing that is tracked; no
\* step follows the error; nothing else leads to the error
C32_ErrorStep ==
    /\ C32_QueryFailed =>
          /\ pc' = "raised"
          /\ UNCHANGED <<runs, statuses, finished, failures, result, completion>>
    /\ (InProgressCall /\ pc = "raised") => UNCHANGED monVars
    /\ (InProgressCall /\ pc' = "raised" /\ pc # "raised") => C32_QueryFailed

\* after the error: no result list, the affected run is still an entry of
\* the list, is not finished, and its recorded status is one that an earlier
\* query returned or the initial PENDING
C32_ErrorInv ==
    (InProgressCall /\ pc = "raised") =>
        /\ result = <<>>
        /\ idx \in DOMAIN runs
        /\ runs[idx].run_id \notin finished
        /\ tickPolled[Len(tickPolled)] = runs[idx].run_id
        /\ statuses[runs[idx].run_id] \in RunStatus \ TerminalStatuses
        /\ terminalSeen[runs[idx].run_id] = NoStatus

\* C32: when get_run_status raises during a tick of
\* wait_for_runs_with_progress the error ends the whole wait: no result list
\* is returned, and the affected run is neither recorded as UNKNOWN nor
\* dropped from tracking.
C32_QueryErrorPropagates == [](C32_ErrorInv) /\ [][C32_ErrorStep]_vars

\* the query of the second run raised after the first run had finished; the
\* second run keeps the RUNNING an earlier tick recorded
C32_Witness ==
    /\ InProgressCall
    /\ pc = "raised"
    /\ idx = 2
    /\ runs[1].run_id \in finished
    /\ statuses[runs[2].run_id] = "RUNNING"
    /\ result = <<>>

----------------------------------------------------------------------------

(* Claims about termination of the monitor, checked under SpecMonitorLive *)

\* the call is over: it returned, or an error of the status query ended it
MonitorCallOver == pc \in {"done", "raised"}

\* C33: for every finite input list, the empty list and lists that name the
\* same run_id more than once included, wait_for_runs_with_progress
\* eventually returns when every run is eventually reported terminal.
C33_EventuallyReturns == InProgressCall ~> MonitorCallOver

----------------------------------------------------------------------------

(* Claims about get_run_status, checked under SpecAdapterMonitor *)

WatchedIds == {id \in RunIds : id = run_id \/ \E k \in DOMAIN runs : runs[k].run_id = id}

\* the remote run has ended with a result state other than SUCCESS, FAILED
\* and CANCELED
EndedOtherwise(run) == Ended(run) /\ run.result_state \notin TerminalStatuses

\* what get_run_status gives for every state a run is seen in
C35_StatusTable ==
    \A run \in {remote[id] : id \in WatchedIds} :
        /\ GetRunStatus(run) \in TerminalStatuses <=>
               (run.has_state /\ run.result_state \in {"SUCCESS", "FAILED", "CANCELED"})
        /\ GetRunStatus(run) \in TerminalStatuses => GetRunStatus(run) = run.result_state
        /\ GetRunStatus(run) # "PENDING"
        /\ EndedOtherwise(run) =>
               GetRunStatus(run) = IF run.life_cycle_state # "None" THEN "RUNNING" ELSE "UNKNOWN"

\* what the monitor has recorded: a terminal status was reported for a run
\* only if the run ended with that result state; a run that ended otherwise
\* was never reported terminal, is not finished, and no call watching it has
\* returned; no query gave PENDING
C35_MonitorInv ==
    /\ C35_StatusTable
    /\ \A id \in WatchedIds :
         /\ terminalSeen[id] # NoStatus =>
              remote[id].has_state /\ remote[id].result_state = terminalSeen[id]
         /\ EndedOtherwise(remote[id]) =>
              /\ terminalSeen[id] = NoStatus
              /\ id \notin finished
              /\ pc # "done"
    /\ InWaitCall => status # "PENDING"
    /\ InProgressCall =>
         \A id \in Range(tickPolled) : pc # "raised" => statuses[id] # "PENDING"

\* a run that ended otherwise stays so, and a query of it gives RUNNING, or
\* UNKNOWN without a life-cycle state, and leads to the sleep, never to the
\* return
C35_MonitorStep ==
    /\ \A id \in WatchedIds : EndedOtherwise(remote[id]) => remote'[id] = remote[id]
    /\ (InWaitCall /\ pc = "poll" /\ pc' \notin {"poll", "raised"}
          /\ EndedOtherwise(remote[run_id])) =>
             /\ pc' = "sleep"
             /\ status' = IF remote[run_id].life_cycle_state # "None"
                            THEN "RUNNING" ELSE "UNKNOWN"
    /\ (InProgressCall /\ pc = "for" /\ idx' = idx + 1
          /\ Len(tickPolled') = Len(tickPolled) + 1
          /\ EndedOtherwise(remote[runs[idx].run_id])) =>
             /\ statuses'[runs[idx].run_id] =
                    IF remote[runs[idx].run_id].life_cycle_state # "None"
                      THEN "RUNNING" ELSE "UNKNOWN"
             /\ finished' = finished

----------------------------------------------------------------------------

(* Claims about the dispatcher, checked under SpecDispatch *)

BagOfSeq(s) == [x \in Range(s) |-> Cardinality({k \in DOMAIN s : s[k] = x})]

Failed == {i \in DOMAIN futures : futures[i].state = "failed"}

\* the runs the start_job calls returned, one per element of job_ids
RunsOfStartJob == [i \in DOMAIN futures |-> futures[i].run]

\* C5: with max_parallel >= 1 and every start_job call succeeding, under every
\* interleaving of the workers the call returns, and the multiset of the
\* returned runs is the multiset of what start_job returned for the elements of
\* job_ids: none lost, none duplicated, in any order.
C5_ReturnsEveryStartedRun ==
    /\ dpc = "returned" =>
          /\ Len(futures) = Len(job_ids)
          /\ \A i \in DOMAIN futures :
                /\ futures[i].state = "done"
                /\ futures[i].run.job_id = job_ids[i]
          /\ BagOfSeq(dresult) = BagOfSeq(RunsOfStartJob)
          /\ Len(dresult) = Len(job_ids)
    /\ (max_parallel >= 1 /\ Failed = {}) =>
          /\ dpc # "raised"
          /\ (dpc # "returned" => ENABLED DispatchNext)

\* three jobs, one id twice, two workers: every run is returned, and not in
\* the order of job_ids
C5_Witness ==
    /\ dpc = "returned"
    /\ Len(job_ids) = 3
    /\ job_ids[1] = job_ids[3]
    /\ job_ids[1] # job_ids[2]
    /\ max_parallel = 2
    /\ dresult[1].job_id = job_ids[2]
    /\ dresult[1].run_id = 2

\* C6: never more than max_parallel start_job calls are in progress.
C6_AtMostMaxParallelInFlight ==
    Cardinality(InFlight) <= (IF max_parallel > 0 THEN max_parallel ELSE 0)

\* both workers are inside start_job while a third job waits in the queue
C6_Witness ==
    /\ max_parallel = 2
    /\ Cardinality(InFlight) = 2
    /\ Queued # {}

\* C7: the call returns a list holding a run for every requested job id, or it
\* raises: once a start_job call raised the call cannot return, it ends by
\* raising, and the runs collected so far are not returned.
C7_AllOrError ==
    /\ dpc = "returned" =>
          /\ Failed = {}
          /\ Len(dresult) = Len(job_ids)
          /\ BagOfSeq([k \in DOMAIN dresult |-> dresult[k].job_id]) = BagOfSeq(job_ids)
    /\ Failed # {} =>
          /\ dpc # "returned"
          /\ dresult = <<>>
          /\ (dpc # "raised" => ENABLED DispatchNext)
    /\ dpc = "raised" => derror \in {"ValueError", "StartFailed"}

\* one start failed after another run had already been collected: the call
\* ended with the error and the collected run was not returned
C7_Witness ==
    /\ dpc = "raised"
    /\ derror = "StartFailed"
    /\ Len(started_runs) >= 1
    /\ dresult = <<>>

\* C8: with a non-empty job_ids and max_parallel < 1 the call fails with the
\* argument error and no start_job call is made, nothing is submitted.
C8_RejectsNonPositiveParallel ==
    (Len(job_ids) > 0 /\ max_parallel < 1) =>
        /\ startLog = <<>>
        /\ futures = <<>>
        /\ dpc \in {"entry", "raised"}
        /\ (dpc = "raised" => derror = "ValueError")

C8_Witness ==
    /\ Len(job_ids) = 2
    /\ max_parallel = 0
    /\ dpc = "raised"
    /\ derror = "ValueError"

\* C9: with an empty job_ids and max_parallel >= 1 the call returns the empty
\* list and invokes no adapter operation.
C9_EmptyInputReturnsEmpty ==
    (Len(job_ids) = 0 /\ max_parallel >= 1) =>
        /\ startLog = <<>>
        /\ futures = <<>>
        /\ dpc \in {"entry", "returned"}
        /\ (dpc = "returned" => dresult = <<>>)
        /\ derror = "none"

C9_Witness ==
    /\ Len(job_ids) = 0
    /\ max_parallel = 1
    /\ dpc = "returned"
    /\ dresult = <<>>
    /\ startLog = <<>>

----------------------------------------------------------------------------
(* Claims about the job inventory cache, checked under SpecCache *)

\* the flag values of DisableValues that read as "1", "true" or "yes"
ExplicitlyDisabled ==
    env_disable \in {<<"1">>, <<"T", "R", "U", "E">>, <<" ", "Y", "e", "s", " ">>}

\* a readable JSON object with a numeric timestamp
HasTimestamp(file) ==
    /\ file.kind = "json"
    /\ file.value.type = "object"
    /\ file.value.timestamp.kind = "number"

\* an entry of the documented format: a numeric timestamp and a list of jobs
WellFormed(file) ==
    /\ HasTimestamp(file)
    /\ file.value.jobs.kind = "array"

AgeAtCall == now - file_before.value.timestamp.val

CacheUsable == ~ExplicitlyDisabled /\ CacheTtlSeconds(env_ttl) > 0

ReadProblem(file) ==
    \/ file.kind \in {"absent", "unreadable", "invalid_json"}
    \/ /\ file.kind = "json"
       /\ \/ file.value.type # "object"
          \/ file.value.timestamp.kind # "number"
          \/ file.value.jobs.kind \notin {"missing", "array"}

\* C11: with caching in use, any problem reading the cache entry makes the
\* cache load give None and find_all_jobs fetch live and return; no read
\* problem leaves find_all_jobs as an error.
C11_ReadProblemsAreMisses ==
    (cpc \in {"returned", "raised"} /\ CacheUsable /\ ReadProblem(file_before)) =>
        /\ loaded = LoadNone
        /\ cpc = "returned"
        /\ fetched

\* the age, at the load, of what the last store wrote
AgeOfStored == now - stored.at

\* a job as it comes back from the cache: absent tags are an empty mapping
WithTagsMapping(job) == IF job.tags.present THEN job ELSE Job(job.id, job.name, EmptyTags)

\* C12 as stated: with caching in use, store(jobs) followed immediately by
\* load() gives a job sequence equal to jobs, also for jobs whose tags are
\* absent; once the TTL has elapsed the load gives None.
C12_RoundTripEqual ==
    (cpc = "loaded" /\ stored.valid /\ CacheUsable) =>
        /\ AgeOfStored = 0 => (loaded.kind = "jobs" /\ loaded.jobs = stored.jobs)
        /\ AgeOfStored > CacheTtlSeconds(env_ttl) => loaded = LoadNone

\* C12, amended: with caching in use, store(jobs) followed by load() before
\* the TTL has elapsed gives jobs with the same ids, names and order, each
\* tags mapping unchanged and each absent tags as an empty mapping; once the
\* TTL has elapsed the load gives None.
C12_RoundTripUpToAbsentTags ==
    (cpc = "loaded" /\ stored.valid /\ CacheUsable) =>
        IF AgeOfStored <= CacheTtlSeconds(env_ttl)
          THEN /\ loaded.kind = "jobs"
               /\ loaded.jobs = [k \in DOMAIN stored.jobs |-> WithTagsMapping(stored.jobs[k])]
          ELSE loaded = LoadNone

\* an inventory with a tagged job and a job without tags was stored and is
\* loaded at once: the tagged job comes back as it was, the other with {}
C12_Witness ==
    /\ cpc = "loaded"
    /\ stored.valid
    /\ AgeOfStored = 0
    /\ Len(stored.jobs) = 2
    /\ stored.jobs[1].tags = EtlTags
    /\ stored.jobs[2].tags = NoTags
    /\ loaded.kind = "jobs"
    /\ loaded.jobs[1] = stored.jobs[1]
    /\ loaded.jobs[2].tags = EmptyTags

\* the remote entries that have settings and a name, as jobs, in listing order
RECURSIVE NamedJobs(_)
NamedJobs(listing) ==
    IF listing = <<>> THEN <<>>
    ELSE (IF Head(listing).has_settings /\ Head(listing).name # ""
            THEN <<Job(Head(listing).job_id, Head(listing).name,
                       IF Head(listing).tags.present THEN Head(listing).tags ELSE EmptyTags)>>
            ELSE <<>>) \o NamedJobs(Tail(listing))

\* C13, read with caching in use: on a cache hit find_all_jobs returns the
\* cached inventory, lists no remote jobs and leaves the file as it was; on a
\* miss (the load gave None) it lists the remote jobs, drops the entries
\* without a name, overwrites the entry with the result stamped with the
\* current time and returns that result; a call made while the entry the last
\* store wrote is within the TTL lists no remote jobs.
C13_HitReadsMissFetchesStoresReturns ==
    /\ [](( cpc \in {"returned", "raised"} /\ CacheUsable) =>
            /\ loaded.kind = "jobs" =>
                  /\ cpc = "returned"
                  /\ found = loaded.jobs
                  /\ ~fetched
                  /\ cache_file = file_before
            /\ loaded = LoadNone =>
                  /\ fetched
                  /\ cpc = "returned"
                  /\ found = NamedJobs(remote_jobs)
                  /\ HasTimestamp(cache_file)
                  /\ cache_file.value.timestamp.val = now
                  /\ cache_file.value.jobs.kind = "array"
                  /\ ParseItems(cache_file.value.jobs.items) = found)
    /\ [][(cpc = "idle" /\ cpc' \in {"returned", "raised"} /\ CacheUsable
             /\ stored.valid /\ AgeOfStored <= CacheTtlSeconds(env_ttl))
            => ~fetched']_vars

\* C15: when the write performed by the store fails with an I/O error during
\* find_all_jobs, find_all_jobs still returns the live-fetched inventory.
C15_FailedWriteStillReturns ==
    (cpc \in {"returned", "raised"} /\ fetched /\ cerror = "OSError") =>
        /\ cpc = "returned"
        /\ found = NamedJobs(remote_jobs)

\* the effective TTL: the override as an integer, negative values as 0; 300
\* when the override is unset or is not an integer
EffectiveTtl ==
    IF env_ttl.kind = "text" /\ env_ttl.parses
      THEN (IF env_ttl.val < 0 THEN 0 ELSE env_ttl.val)
      ELSE 300

----------------------------------------------------------------------------
(* Claims about two concurrent invocations, checked under SpecCacheRace *)

\* whether invocation q fetched live, wrote its entry completely and returned
WroteCompletely(q) ==
    rpc[q] = "done" /\ rcached[q] = LoadNone /\ ~ExplicitlyDisabled /\ EffectiveTtl > 0

\* the inventories some invocation stored completely: the one found at the
\* start, and those of the invocations that finished their write
CompleteInventories ==
    (IF OldInventory = <<>> THEN {} ELSE {OldInventory})
      \cup {rjobs[q] : q \in {q \in Invocations : WroteCompletely(q)}}

----------------------------------------------------------------------------
(* Claims about job selection, checked under SpecSelect *)

\* the positions of the inventory for which selector.matches gave true
MatchingIndices == {k \in DOMAIN s_inventory : s_verdicts[k]}

\* the i-th smallest of them
NthMatching(i) ==
    CHOOSE k \in MatchingIndices : Cardinality({j \in MatchingIndices : j <= k}) = i

\* C17: select_jobs calls the adapter's find_all_jobs exactly once and returns
\* exactly the jobs of that inventory for which selector.matches is true, each
\* once per listing and in the inventory's order.
C17_SelectsMatchingInOrder ==
    spc = "selected" =>
        /\ s_calls = 1
        /\ DOMAIN s_verdicts = DOMAIN s_inventory
        /\ Len(s_selected) = Cardinality(MatchingIndices)
        /\ \A i \in DOMAIN s_selected : s_selected[i] = s_inventory[NthMatching(i)]

\* from an inventory listing one job twice with two others in between, a tag
\* selector picks that job's two listings and nothing else
C17_Witness ==
    /\ spc = "selected"
    /\ s_inventory = <<JobC, JobB, JobAb, JobC>>
    /\ s_selector = AndSelector(<<TagSelector(<<"k">>, <<"v">>)>>)
    /\ s_selected = <<JobC, JobC>>
    /\ s_calls = 1

\* a selector, its children and their children
SubSelectors(sel) ==
    {sel} \cup Range(sel.selectors)
          \cup UNION {Range(sel.selectors[k].selectors) : k \in DOMAIN sel.selectors}

\* what the children of a composite say about a job
EveryChildMatches(sel, job) == \A c \in DOMAIN sel.selectors : Matches(sel.selectors[c], job)

SomeChildMatches(sel, job) == \E c \in DOMAIN sel.selectors : Matches(sel.selectors[c], job)

\* C18: for every job and every composite with a non-empty list of children,
\* nested composites included, AndSelector.matches is true iff every child
\* matches the job and OrSelector.matches is true iff some child matches it.
C18_AndIsAllOrIsAny ==
    spc = "selected" =>
        /\ (s_selector.type = "and" /\ s_selector.selectors # <<>>) =>
              \A k \in DOMAIN s_inventory :
                  s_verdicts[k] <=> EveryChildMatches(s_selector, s_inventory[k])
        /\ (s_selector.type = "or" /\ s_selector.selectors # <<>>) =>
              \A k \in DOMAIN s_inventory :
                  s_verdicts[k] <=> SomeChildMatches(s_selector, s_inventory[k])
        /\ \A sub \in SubSelectors(s_selector) : \A k \in DOMAIN s_inventory :
              /\ (sub.type = "and" /\ sub.selectors # <<>>) =>
                    (Matches(sub, s_inventory[k]) <=> EveryChildMatches(sub, s_inventory[k]))
              /\ (sub.type = "or" /\ sub.selectors # <<>>) =>
                    (Matches(sub, s_inventory[k]) <=> SomeChildMatches(sub, s_inventory[k]))

\* an And of two Ors was applied: it matched the jobs both Ors match and
\* rejected the job neither matches and the job only the second matches
C18_Witness ==
    /\ spc = "selected"
    /\ s_selector.type = "and"
    /\ Len(s_selector.selectors) = 2
    /\ s_selector.selectors[1].type = "or"
    /\ s_selector.selectors[2].type = "or"
    /\ s_inventory = <<JobX, JobBa, JobAb, JobB>>
    /\ s_verdicts = <<FALSE, TRUE, TRUE, FALSE>>
    /\ ~Matches(s_selector.selectors[1], JobB)
    /\ Matches(s_selector.selectors[2], JobB)

\* C19: TagSelector(key, value).matches(job) is false when job.tags is absent
\* or empty, and otherwise true iff job.tags holds key with a value equal to
\* value.
C19_TagMatchesIffKeyHasValue ==
    (spc = "selected" /\ s_selector.type = "tag") =>
        \A k \in DOMAIN s_inventory :
            s_verdicts[k] <=>
                /\ s_inventory[k].tags.present
                /\ s_inventory[k].tags.map # {}
                /\ <<s_selector.key, s_selector.value>> \in s_inventory[k].tags.map

\* TagSelector("t", "e") over a job with t = "e=x", a job without tags, a job
\* with t = "e" and a job with empty tags: only the third matches
C19_Witness ==
    /\ spc = "selected"
    /\ s_selector = TagSelector(<<"t">>, <<"e">>)
    /\ s_inventory = <<JobX, JobBa, JobAb, JobB>>
    /\ s_verdicts = <<FALSE, FALSE, TRUE, FALSE>>
    /\ s_selected = <<JobAb>>

\* whether a name was given (None and "" count as no name)
HasNameArg == s_name.given /\ Len(s_name.text) > 0

\* whether the name compiles and every tag string has an "="
ArgsValid ==
    /\ ~(HasNameArg /\ s_name.text = <<"(">>)
    /\ \A k \in DOMAIN s_tags : \E i \in DOMAIN s_tags[k] : s_tags[k][i] = "="

\* the position of the first "=" of a tag string
FirstEquals(tag) ==
    CHOOSE i \in DOMAIN tag : tag[i] = "=" /\ \A j \in 1..(i - 1) : tag[j] # "="

\* the selectors the arguments ask for: the name first, then the tags in order
ExpectedSelectors ==
    (IF HasNameArg THEN <<NameRegexSelector(s_name.text)>> ELSE <<>>)
      \o [k \in DOMAIN s_tags |->
            TagSelector(SubSeq(s_tags[k], 1, FirstEquals(s_tags[k]) - 1),
                        SubSeq(s_tags[k], FirstEquals(s_tags[k]) + 1, Len(s_tags[k])))]

\* C20: build_selector with no name and no tags fails with a selector error;
\* when exactly one selector results it returns that selector itself; when
\* two or more result it returns an Or of all of them if use_or is set and an
\* And of all of them otherwise, the name selector first and then one tag
\* selector per tag string in input order.
C20_BuildSelectorShape ==
    spc \in {"built", "invalid"} =>
        /\ (~HasNameArg /\ s_tags = <<>>) =>
              /\ spc = "invalid"
              /\ s_error.kind = "ValueError"
              /\ s_error.about = "no selector"
              /\ s_selector = NoSelector
        /\ (ArgsValid /\ Len(ExpectedSelectors) = 1) =>
              /\ spc = "built"
              /\ s_selector = ExpectedSelectors[1]
        /\ (ArgsValid /\ Len(ExpectedSelectors) >= 2) =>
              /\ spc = "built"
              /\ s_selector.type = (IF s_use_or THEN "or" ELSE "and")
              /\ s_selector.selectors = ExpectedSelectors

\* name "a", tags "t=e" and "k=v", use_or: an Or of the name selector and the
\* two tag selectors, in that order
C20_Witness ==
    /\ spc = "built"
    /\ s_use_or
    /\ s_selector = OrSelector(<<NameRegexSelector(<<"a">>),
                                 TagSelector(<<"t">>, <<"e">>),
                                 TagSelector(<<"k">>, <<"v">>)>>)

\* a tag string that is not a non-empty key and a value separated by exactly
\* one "=": no "=", more than one "=", or nothing before the "="
MalformedTag(tag) ==
    \/ Cardinality({i \in DOMAIN tag : tag[i] = "="}) # 1
    \/ tag[1] = "="

MalformedTags == {k \in DOMAIN s_tags : MalformedTag(s_tags[k])}

\* C21: for every tag string that is not a non-empty key and a value separated
\* by exactly one "=", build_selector fails with a selector error naming that
\* string and returns no selector (the name, if given, being a valid regex).
C21_MalformedTagRejected ==
    (spc \in {"built", "invalid"} /\ MalformedTags # {}
       /\ ~(HasNameArg /\ s_name.text = <<"(">>)) =>
        /\ spc = "invalid"
        /\ s_error.kind = "ValueError"
        /\ s_error.about = "tag"
        /\ \E k \in MalformedTags : s_error.text = s_tags[k]
        /\ s_selector = NoSelector

\* the start_job calls made so far for the elements of job_ids: the
\* futures that left the queue, one call each
StartedElements == {i \in DOMAIN futures : futures[i].state # "queued"}

DispatchOver == dpc \in {"returned", "raised"}

\* C30 as stated: never more start_job calls for a job id than job_ids has
\* elements with that id, and when the call is over exactly one call per
\* element.
C30_OneStartPerElement ==
    (dpc # "idle") =>
        /\ \A id \in Range(startLog) :
             Occurrences(startLog, id) <= Occurrences(job_ids, id)
        /\ DispatchOver => BagOfSeq(startLog) = BagOfSeq(job_ids)

\* C30, amended: start_job is called at most once per element of job_ids,
\* one call per work item that left the queue, and a failed start is never
\* called again; when the call is over, with max_parallel >= 1 every element
\* was started exactly once, also when a start failed, and with
\* max_parallel < 1 none was started.
C30_AtMostOneStartPerElement ==
    (dpc # "idle") =>
        /\ Len(futures) <= Len(job_ids)
        /\ \A i \in DOMAIN futures : futures[i].job_id = job_ids[i]
        /\ Len(startLog) = Cardinality(StartedElements)
        /\ \A id \in Range(startLog) :
             Occurrences(startLog, id) =
                 Cardinality({i \in StartedElements : futures[i].job_id = id})
        /\ DispatchOver =>
             IF max_parallel < 1
               THEN startLog = <<>> /\ derror = "ValueError"
               ELSE /\ BagOfSeq(startLog) = BagOfSeq(job_ids)
                    /\ Len(startLog) = Len(job_ids)

\* three elements, one job id twice; one start failed and the call raised:
\* every element was started once and the failed one was not started again
C30_Witness ==
    /\ job_ids = <<1, 2, 1>>
    /\ dpc = "raised"
    /\ derror = "StartFailed"
    /\ Cardinality(Failed) = 1
    /\ Len(startLog) = 3
    /\ Occurrences(startLog, 1) = 2

----------------------------------------------------------------------------
(* Claims about a failing start, checked under SpecDispatch *)

\* an exception of start_job is on its way to the caller, or has reached it
StartErrorRaised == dpc \in {"unwind", "raised"} /\ derror = "StartFailed"

\* the runs start_job created: the runs of the futures that completed
CreatedRuns == {futures[i].run : i \in {k \in DOMAIN futures : futures[k].state = "done"}}

\* while the error is on its way the pool keeps working: work that is queued
\* or running keeps the error from reaching the caller and can still be
\* taken up or finished; when the error has reached the caller every job id
\* was started, no work item is left queued or running, and nothing is
\* returned, whatever runs were created
C34_UnwindInv ==
    StartErrorRaised =>
        /\ Failed # {}
        /\ Len(futures) = Len(job_ids)
        /\ (dpc = "unwind" /\ Queued \cup InFlight # {}) =>
             /\ ~ENABLED DispatchRaise
             /\ ENABLED (WorkerStart \/ WorkerDone \/ WorkerFails)
        /\ dpc = "raised" =>
             /\ StartedElements = DOMAIN job_ids
             /\ \A i \in DOMAIN futures : futures[i].state \in {"done", "failed"}
             /\ \A i \in DOMAIN job_ids :
                  Occurrences(startLog, job_ids[i]) = Occurrences(job_ids, job_ids[i])
        /\ dresult = <<>>

\* while the error is on its way no work item is taken back: a future only
\* moves from queued to running and from running to done or failed
C34_UnwindStep ==
    StartErrorRaised =>
        /\ Len(futures') = Len(futures)
        /\ \A i \in DOMAIN futures :
             futures'[i].state # futures[i].state =>
                 \/ futures[i].state = "queued" /\ futures'[i].state = "running"
                 \/ futures[i].state = "running" /\ futures'[i].state \in {"done", "failed"}
        /\ dresult' = <<>>
        /\ dpc' # "returned"

\* C34: when a start_job call raises inside start_jobs_parallel the calls
\* submitted for the other job ids are not cancelled; every other job id is
\* still started before the error reaches the caller, and the runs so
\* created are not reported to the caller.
C34_OtherStartsNotCancelled == [](C34_UnwindInv) /\ [][C34_UnwindStep]_vars

\* the first start failed and its error was the only thing collected; the
\* other two job ids were started all the same, both runs were created, and
\* the caller got the error only
C34_Witness ==
    /\ dpc = "raised"
    /\ derror = "StartFailed"
    /\ Len(job_ids) = 3
    /\ yielded = {1}
    /\ Failed = {1}
    /\ Cardinality(CreatedRuns) = 2
    /\ dresult = <<>>

----------------------------------------------------------------------------

(* Claims about the find and run commands, checked under SpecJobsCli *)

\* find_all_jobs is counted by s_calls, start_job is logged in startLog, and
\* get_run_status is only called by the monitor, whose every step needs
\* call # "none"
NoListing == s_calls = 0

NoStart == startLog = <<>>

NoStatusQuery == call = "none" /\ tickPolled = <<>> /\ completion = <<>>

Exited == kpc = "exited"

ExitedNonZero == Exited /\ exit_code # NoExit /\ exit_code # 0

\* C22: in find and in run, once build_selector has failed (invalid regex,
\* malformed tag, no selector given) the command does nothing but exit, its
\* exit code is not zero, and no adapter operation has been invoked:
\* find_all_jobs, start_job and get_run_status are all untouched.
C22_SelectorErrorExitsBeforeAdapter ==
    spc = "invalid" =>
        /\ command \in {"find", "run"}
        /\ s_error.kind = "ValueError"
        /\ s_error.about \in {"regex", "tag", "no selector"}
        /\ NoListing /\ NoStart /\ NoStatusQuery
        /\ selected = <<>>
        /\ kpc \in {"command", "exited"}
        /\ Exited => ExitedNonZero /\ out = <<"error">>
        /\ ~Exited => ENABLED CliDie

\* the run command, asked to watch, has exited on an invalid regex
C22_Witness ==
    /\ command = "run"
    /\ watch /\ ~dry_run /\ parallel = 2
    /\ s_inventory # <<>>
    /\ spc = "invalid"
    /\ s_error.about = "regex"
    /\ Exited
    /\ exit_code = 1

\* C23: the run command with parallel < 1 fails, and it has invoked none of
\* find_all_jobs, start_job and get_run_status when it does.
C23_NonPositiveParallelRejectedFirst ==
    (command = "run" /\ parallel < 1 /\ Exited) =>
        /\ ExitedNonZero
        /\ NoListing /\ NoStart /\ NoStatusQuery

\* C24 as stated: the run command with --dry-run never invokes start_job or
\* get_run_status, and it exits with code 0.
C24_DryRunStartsNothingExitsZero ==
    (command = "run" /\ dry_run) =>
        /\ NoStart /\ NoStatusQuery
        /\ Exited => exit_code = 0

\* C24, amended: the run command with --dry-run never enters
\* start_jobs_parallel or the monitor, so start_job and get_run_status are
\* never invoked, whatever the selection and the confirm, watch and
\* parallelism values; it exits with code 0 unless the selector is invalid or
\* listing the jobs raises, and then it exits with code 1.
C24_DryRunStartsNothing ==
    (command = "run" /\ dry_run) =>
        /\ NoStart /\ NoStatusQuery
        /\ dpc = "idle"
        /\ kpc \in {"command", "chosen", "dry_run", "exited"}
        /\ Exited =>
             exit_code = IF spc \in {"invalid", "listing_raised"} THEN 1 ELSE 0

\* a dry run over two selected jobs, with a parallelism of 0, asked to
\* confirm and to watch, has printed its notice and exited
C24_Witness ==
    /\ command = "run"
    /\ dry_run /\ confirm /\ watch /\ parallel = 0
    /\ Len(selected) = 2
    /\ Exited
    /\ exit_code = 0
    /\ out = <<"jobs_table", "Dry-run enabled">>

Watched == command = "run" /\ call = "wait_for_runs_with_progress"

EveryRunTerminal == \A k \in DOMAIN runs : statuses[runs[k].run_id] \in TerminalStatuses

SomeRunNotSuccess == \E k \in DOMAIN runs : statuses[runs[k].run_id] # "SUCCESS"

StatusTablePrinted == \E k \in DOMAIN out : out[k] = "run_status_table"

\* C25 as stated: a run command that watches its runs exits non-zero exactly
\* if some run's final status is not SUCCESS, and only after every run is
\* terminal and the status table has been printed.
C25_WatchExitsNonZeroIffNotAllSuccess ==
    (Watched /\ Exited) =>
        /\ exit_code # 0 <=> SomeRunNotSuccess
        /\ exit_code # 0 => EveryRunTerminal /\ StatusTablePrinted

\* C25, amended: while the runs are watched the command does not exit; when
\* the monitor returns, every run is terminal, the command prints the status
\* of every run, in input order, and only then exits, with code 1 exactly if
\* some final status is not SUCCESS and code 0 otherwise; when a status query
\* raises, the command exits with code 1 and prints no status table.
C25_WatchExitCode ==
    Watched =>
        /\ kpc \in {"watching", "reported", "exited"}
        /\ kpc = "watching" => exit_code = NoExit /\ ~StatusTablePrinted
        /\ kpc = "reported" => exit_code = NoExit
        /\ kpc \in {"reported", "exited"} /\ pc = "done" =>
             /\ EveryRunTerminal
             /\ runs = dresult
             /\ StatusTablePrinted
             /\ results = [k \in DOMAIN runs |-> <<runs[k], statuses[runs[k].run_id]>>]
        /\ Exited /\ pc = "done" =>
             /\ exit_code \in {0, 1}
             /\ exit_code = 1 <=> SomeRunNotSuccess
        /\ Exited /\ pc # "done" =>
             /\ pc = "raised"
             /\ exit_code = 1
             /\ ~StatusTablePrinted
             /\ results = <<>>

\* two watched runs, one ended in SUCCESS and one was CANCELED: both are
\* reported and the command has exited with code 1
C25_Witness ==
    /\ Watched /\ Exited
    /\ Len(results) = 2
    /\ results[1][2] = "SUCCESS"
    /\ results[2][2] = "CANCELED"
    /\ out = <<"jobs_table", "runs_table", "run_status_table">>
    /\ exit_code = 1

----------------------------------------------------------------------------
(* Claims about what the run command starts, checked under SpecJobsCli *)

\* start_jobs_parallel has been called by the run command
StartRequested == dpc # "idle"

\* the last thing the command printed
LastPrinted == IF out = <<>> THEN "nothing" ELSE out[Len(out)]

\* the command left through one of the three quiet exits: nothing matched,
\* nothing chosen, confirmation declined
QuietExit == Exited /\ LastPrinted \in {"No jobs found", "No jobs selected", "Cancelled"}

\* whatever was started was matched by the selector, is in the inventory
\* and was chosen at the prompt; starting needs dry-run off and, with
\* --confirm, the user's yes; the three quiet exits start nothing and give
\* code 0, and each condition that leads to one does
C36_StartInv ==
    /\ \A k \in DOMAIN selected :
         /\ \E j \in DOMAIN s_selected : s_selected[j] = selected[k]
         /\ \E j \in DOMAIN s_inventory : s_inventory[j] = selected[k]
         /\ Matches(s_selector, selected[k])
    /\ StartRequested =>
         /\ command = "run"
         /\ job_ids = IdsOf(selected)
         /\ selected # <<>>
         /\ ~dry_run
         /\ confirm => answer = "yes"
    /\ ~StartRequested => NoStart
    /\ \A k \in DOMAIN startLog : \E j \in DOMAIN selected : selected[j].id = startLog[k]
    /\ answer # "not_asked" => confirm /\ ~dry_run /\ selected # <<>>
    /\ QuietExit => NoStart /\ ~StartRequested /\ exit_code = 0
    /\ (Exited /\ command = "run" /\ spc = "selected" /\ s_selected = <<>>) =>
         LastPrinted = "No jobs found"
    /\ (Exited /\ command = "run" /\ spc = "selected" /\ s_selected # <<>> /\ selected = <<>>) =>
         LastPrinted = "No jobs selected"
    /\ answer = "no" => Exited /\ LastPrinted = "Cancelled"

\* the start is requested only from the point after the dry-run test, and
\* an exit is final
C36_StartStep ==
    /\ (StartRequested' /\ ~StartRequested) =>
          /\ kpc = "dry_run"
          /\ ~dry_run
          /\ confirm => answer' = "yes"
          /\ job_ids' = IdsOf(selected)
    /\ Exited => UNCHANGED <<startLog, dpc, exit_code>>

\* C36: in the run command start_job is invoked only for jobs that were
\* matched by the selector and then chosen by the user, only when dry-run is
\* off and, when confirmation is requested, only after the user confirmed; an
\* empty match, an empty selection or a declined confirmation starts no job
\* and exits with code 0.
C36_StartsOnlyChosenAndConfirmed == [](C36_StartInv) /\ [][C36_StartStep]_vars

\* two jobs matched, the user chose the second only and confirmed; the one
\* start_job call made was for that job
C36_Witness ==
    /\ command = "run"
    /\ confirm
    /\ answer = "yes"
    /\ Len(s_selected) = 2
    /\ selected = <<s_selected[2]>>
    /\ startLog = <<s_selected[2].id>>

----------------------------------------------------------------------------

(* Claims about the bulk catalog operations, checked under SpecCatalog *)

BulkOps == {"delete_tables", "set_tables_owner", "drop_empty_schemas"}

\* the name a result is about
ResultName(r) ==
    CASE u_op = "delete_tables" -> r.table
      [] u_op = "set_tables_owner" -> r.full_name
      [] u_op = "drop_empty_schemas" -> r.schema_full_name

MutatingCalls == {k \in DOMAIN u_calls : u_calls[k].op \in MutatingOps}

\* C26: with dry_run=True delete_tables, set_tables_owner and
\* drop_empty_schemas make no adapter call at all, never raise, and return
\* one result per input name, in input order, with no error in it;
\* delete_schema_with_tables with dry_run=True makes no mutating call.
C26_DryRunTouchesNothing ==
    u_dry_run =>
        /\ MutatingCalls = {}
        /\ u_op \in BulkOps =>
             /\ u_calls = <<>>
             /\ upc # "raised"
             /\ Len(u_results) <= Len(u_names)
             /\ \A k \in DOMAIN u_results :
                  /\ ResultName(u_results[k]) = u_names[k]
                  /\ u_results[k].error = "None"
             /\ upc = "returned" =>
                  /\ u_return = [kind |-> "list", value |-> u_results]
                  /\ Len(u_results) = Len(u_names)
        /\ u_op = "delete_schema_with_tables" /\ upc = "returned" =>
             /\ u_return.schema_deleted = FALSE
             /\ u_return.tables = u_tables

\* a dry run of delete_tables over two different names has returned
C26_Witness ==
    /\ u_op = "delete_tables"
    /\ u_dry_run
    /\ u_names = <<TableB, TableA>>
    /\ upc = "returned"
    /\ Len(u_return.value) = 2

\* the calls of one adapter operation, in the order they were made
RECURSIVE CallsOf(_, _)
CallsOf(calls, op) ==
    IF calls = <<>> THEN <<>>
    ELSE IF Head(calls).op = op THEN <<Head(calls)>> \o CallsOf(Tail(calls), op)
    ELSE CallsOf(Tail(calls), op)

SetOwnerCalls == CallsOf(u_calls, "set_table_owner")

DeleteCalls == CallsOf(u_calls, "delete_table")

\* how many of the first k set_table_owner calls returned
OwnersSetUpTo(k) == Cardinality({j \in 1..k : SetOwnerCalls[j].ok})

\* both calls for the k-th table were made and returned
BothSucceeded(k) ==
    /\ SetOwnerCalls[k].ok
    /\ OwnersSetUpTo(k) <= Len(DeleteCalls)
    /\ DeleteCalls[OwnersSetUpTo(k)].ok

\* every table processed so far has its result: the table's name, deleted
\* exactly if both of its calls succeeded, an error exactly if one failed
ResultsFollowCalls ==
    /\ Len(u_results) <= Len(u_names)
    /\ Len(SetOwnerCalls) = Len(u_results) + (IF upc = "dt_delete" THEN 1 ELSE 0)
    /\ \A k \in DOMAIN SetOwnerCalls : SetOwnerCalls[k].name = u_names[k]
    /\ \A k \in DOMAIN u_results :
         /\ u_results[k].table = u_names[k]
         /\ u_results[k].deleted <=> BothSucceeded(k)
         /\ u_results[k].deleted <=> u_results[k].error = "None"
         /\ ~SetOwnerCalls[k].ok => u_results[k].error = "set_table_owner"
         /\ SetOwnerCalls[k].ok =>
              DeleteCalls[OwnersSetUpTo(k)].name = u_names[k]

\* C27: delete_tables without dry-run returns one result per input name, in
\* input order; a failed set_table_owner or delete_table is recorded in that
\* table's result and the remaining tables are still processed; deleted is
\* true exactly for the tables whose two calls both succeeded.
C27_DeleteTablesOneResultPerName ==
    (u_op = "delete_tables" /\ ~u_dry_run) =>
        /\ upc # "raised"
        /\ upc \in {"dt_for", "dt_delete", "returned"} => ResultsFollowCalls
        /\ upc = "returned" =>
             /\ u_return = [kind |-> "list", value |-> u_results]
             /\ Len(u_results) = Len(u_names)

\* the mutating adapter calls made so far, in order
RECURSIVE Mutating(_)
Mutating(calls) ==
    IF calls = <<>> THEN <<>>
    ELSE IF Head(calls).op \in MutatingOps THEN <<Head(calls)>> \o Mutating(Tail(calls))
    ELSE Mutating(Tail(calls))

SchemaDelete == u_op = "delete_schema_with_tables" /\ ~u_dry_run

SomeTableFailed == \E k \in DOMAIN u_results : u_results[k].error # "None"

CallOver == upc \in {"returned", "raised"}

\* set_schema_owner comes first and once, delete_schema last and once, and
\* between them every delete_table directly follows the set_table_owner of
\* the same table
OrderedCalls(m) ==
    /\ \A j \in DOMAIN m : m[j].op = "set_schema_owner" <=> j = 1
    /\ \A j \in DOMAIN m : m[j].op = "delete_schema" => j = Len(m) /\ CallOver
    /\ \A j \in DOMAIN m :
         m[j].op = "delete_table" =>
             /\ m[j - 1].op = "set_table_owner"
             /\ m[j - 1].name = m[j].name
             /\ m[j - 1].ok

\* C28 as stated: the mutating calls come in the order set_schema_owner,
\* per table set_table_owner then delete_table, delete_schema; every
\* set_table_owner is followed by the delete_table of its table; and once
\* some table deletion has failed, the call still ends with delete_schema
\* called and schema_deleted reported true with the failures in
\* table_results.
C28_SchemaDeleteOrderAndReport ==
    SchemaDelete =>
        LET m == Mutating(u_calls) IN
        /\ OrderedCalls(m)
        /\ \A j \in DOMAIN m :
             (m[j].op = "set_table_owner" /\ (j < Len(m) \/ CallOver)) =>
                 /\ j < Len(m)
                 /\ m[j + 1].op = "delete_table"
        /\ (CallOver /\ SomeTableFailed) =>
             /\ m[Len(m)].op = "delete_schema"
             /\ upc = "returned"
             /\ u_return.schema_deleted
             /\ u_return.table_results = u_results

\* C28, amended: the mutating calls come in the order set_schema_owner, per
\* listed table set_table_owner and, if that returned, delete_table, then
\* delete_schema; a table whose set_table_owner or delete_table failed does
\* not stop the call: every listed table is processed and delete_schema is
\* called; when delete_schema returns, schema_deleted is reported true with
\* one result per table, the failures among them; when set_schema_owner, the
\* user lookup or delete_schema raises, the call raises and reports nothing.
C28_SchemaDeleteCallOrder ==
    SchemaDelete =>
        LET m == Mutating(u_calls) IN
        /\ OrderedCalls(m)
        /\ \A j \in DOMAIN m :
             (m[j].op = "set_table_owner" /\ m[j].ok /\ (j < Len(m) \/ CallOver)) =>
                 /\ j < Len(m)
                 /\ m[j + 1].op = "delete_table"
        /\ \A j \in DOMAIN m :
             (m[j].op = "set_table_owner" /\ ~m[j].ok /\ j < Len(m)) =>
                 m[j + 1].op # "delete_table"
        /\ upc \in {"dt_for", "dt_delete", "ds_delete_schema", "returned"} =>
             /\ u_names = u_tables
             /\ m[1].ok
             /\ ResultsFollowCalls
        /\ upc = "ds_delete_schema" =>
             /\ Len(u_results) = Len(u_tables)
             /\ ENABLED DsDeleteSchema
        /\ upc = "returned" =>
             /\ m[Len(m)] = AdapterCall("delete_schema", u_schema, u_force, TRUE)
             /\ u_return.schema_deleted
             /\ u_return.has_table_results
             /\ u_return.table_results = u_results
             /\ u_return.tables = u_tables
             /\ Len(u_results) = Len(u_tables)
        /\ upc = "raised" =>
             /\ u_return.kind = "raised"
             /\ u_return.error = "delete_schema" =>
                  /\ m[Len(m)] = AdapterCall("delete_schema", u_schema, u_force, FALSE)
                  /\ Len(u_results) = Len(u_tables)
             /\ u_return.error = "set_schema_owner" => Len(m) = 1 /\ ~m[1].ok
             /\ SomeTableFailed => u_return.error = "delete_schema"

\* two tables were listed, the deletion of the first one failed, the second
\* one was deleted, and the schema was deleted and reported so
C28_Witness ==
    /\ SchemaDelete
    /\ upc = "returned"
    /\ u_tables = <<TableA, TableB>>
    /\ u_return.schema_deleted
    /\ u_return.table_results[1].error = "delete_table"
    /\ u_return.table_results[2].deleted
    /\ Len(Mutating(u_calls)) = 6

----------------------------------------------------------------------------
(* Claims about the owner_set flag, checked under SpecCatalog *)

\* C38: in every result returned by delete_tables without dry-run, owner_set
\* is true if and only if set_table_owner completed successfully for that
\* table, also when the subsequent delete_table call failed.
C38_OwnerSetIffOwnerCallSucceeded ==
    (u_op = "delete_tables" /\ ~u_dry_run /\ upc = "returned") =>
        /\ Len(SetOwnerCalls) = Len(u_return.value)
        /\ \A k \in DOMAIN u_return.value :
             u_return.value[k].owner_set <=> SetOwnerCalls[k].ok

----------------------------------------------------------------------------
(* Claims about the schema-delete command, checked under SpecSchemaDelete *)

\* the tables the command has deleted: the delete_table calls that returned
DeletedTables == {u_calls[k].name : k \in {j \in DOMAIN u_calls :
                                             u_calls[j].op = "delete_table" /\ u_calls[j].ok}}

\* C37: the schema-delete command deletes only tables that were listed in
\* the deletion plan shown to and confirmed by the user, even if tables are
\* added to the schema by another actor between building the plan and
\* executing it.
C37_DeletesOnlyPlannedTables ==
    command = "schema-delete" => DeletedTables \subseteq Range(plan)

----------------------------------------------------------------------------
(* Claims about the cache file name, checked under SpecCachePath *)

\* the positions of a key that give a character of the file name: the
\* characters of the class, and the first character of every run of others
KeptPositions(key) ==
    {k \in DOMAIN key : key[k] \in SafeChars \/ k = 1 \/ key[k - 1] \in SafeChars}

\* the key with every run of characters outside the class turned into "_"
RunsReplaced(key) ==
    [n \in 1..Cardinality(KeptPositions(key)) |->
        LET k == KthOf(KeptPositions(key), n) IN
        IF key[k] \in SafeChars THEN key[k] ELSE "_"]

\* adapter i read a cache entry that the other adapter wrote
ReadOthersEntry(i) == p_read[i].kind = "entry" /\ p_read[i].writer # i

\* every cache file lies at the path of the adapter that wrote it, and an
\* adapter reads another adapter's entry only if their sanitized keys (and
\* cache directories) are equal
SanitizedKeyIsolates ==
    /\ \A f \in p_disk : f.path = BuildCachePath(p_ident[f.writer])
    /\ \A i \in Adapters :
         ReadOthersEntry(i) =>
             /\ SafeKey(p_ident[i]) = SafeKey(p_ident[p_read[i].writer])
             /\ p_ident[i].cache_dir = p_ident[p_read[i].writer].cache_dir

\* C39 as stated: the file name is the key "{profile or 'default'}@{host or
\* 'unknown'}" with every character outside [A-Za-z0-9_.-] replaced by one
\* "_" each, so it is as long as the key, and the sanitized key is the sole
\* isolation boundary.
C39_EachCharReplacedKeyIsolates ==
    p_ident # <<>> =>
        /\ \A i \in Adapters :
             /\ BuildCachePath(p_ident[i]).name = SubEachChar(CacheKey(p_ident[i]))
             /\ Len(BuildCachePath(p_ident[i]).name) = Len(CacheKey(p_ident[i]))
        /\ SanitizedKeyIsolates

\* C39, amended: every maximal run of characters outside the class is
\* replaced by a single "_", so the name holds only characters of the class
\* and is shorter than the key exactly when two such characters are
\* adjacent; an adapter reads an entry written for another identity only if
\* their sanitized keys are equal.
C39_RunsReplacedKeyIsolates ==
    p_ident # <<>> =>
        /\ \A i \in Adapters :
             LET key == CacheKey(p_ident[i])
                 name == BuildCachePath(p_ident[i]).name
             IN /\ name = RunsReplaced(key)
                /\ \A k \in DOMAIN name : name[k] \in SafeChars
                /\ Len(name) <= Len(key)
                /\ Len(name) < Len(key) <=>
                      \E k \in 1..(Len(key) - 1) :
                          key[k] \notin SafeChars /\ key[k + 1] \notin SafeChars
        /\ SanitizedKeyIsolates

\* the first adapter, profile "a:" and host "b", read the entry the second,
\* profile "a" and host ":b", wrote: the keys "a:@b" and "a@:b" differ and
\* both give the name "a_b", shorter than either key
C39_Witness ==
    /\ p_ident # <<>>
    /\ ReadOthersEntry(1)
    /\ CacheKey(p_ident[1]) = <<"a", ":", "@", "b">>
    /\ CacheKey(p_ident[2]) = <<"a", "@", ":", "b">>
    /\ SafeKey(p_ident[1]) = <<"a", "_", "b">>
    /\ SafeKey(p_ident[2]) = <<"a", "_", "b">>

====
